---- MODULE Spec2Model ----
(***************************************************************************)
(* A model of the voice front end's two core services:                     *)
(*   - MicrophoneManager (services/microphoneManager.ts): the cache of     *)
(*     the one microphone capture stream;                                  *)
(*   - GeminiLiveService (services/geminiService.ts): the duplex audio     *)
(*     session (connect, outbound pump, inbound dispatch, disconnect).     *)
(* Every `await` of the source is a point where other callbacks of the     *)
(* event loop may run, so an async method is one action per stretch of     *)
(* synchronous code.                                                       *)
(***************************************************************************)
EXTENDS Integers, Sequences, FiniteSets, TLC

\* ------------------------------------------------------------ bounds
MaxStreams == 3     \* getUserMedia requests issued by getAudioStream in one run
MaxCalls == 2       \* getAudioStream calls that may be in flight together

MaxConn == 2        \* connect() invocations in one run (at most MaxCalls)
MaxWaiting == 1     \* frames waiting on a session promise that is still pending
MaxDisc == 1        \* disconnect() invocations suspended at `await session.close()`
MaxTime == 2        \* the output context's clock runs from 0 to MaxTime
MaxChunks == 2      \* playback units started in one run
MaxText == 2
SampleScale == 100  \* samples are the multiples of 1/SampleScale
MaxRecorded == 3    \* chunks in recordedSamples
MaxSample == 150    \* and range over -MaxSample/SampleScale .. MaxSample/SampleScale        \* characters held by a text buffer

StreamIds == 1..MaxStreams
CallIds == 1..MaxCalls
ConnIds == 1..MaxConn

\* DOMException names getUserMedia rejects with
ErrKinds == {"NotAllowedError", "NotFoundError", "NotReadableError"}

VARIABLES
    \* --- MicrophoneManager fields
    permissionGranted,  \* private permissionGranted
    audioStream,        \* private audioStream: 0 is null, else a stream id
    isStreamActive,     \* private isStreamActive
    \* --- the browser's media streams (one audio track each)
    track,              \* track[s]: "none" (never created), "live" or "ended" (readyState)
    trackEnabled,       \* track[s].enabled
    endedSeen,          \* streams whose 'ended' event has been dispatched
    gumCalls,           \* getUserMedia requests issued by getAudioStream so far
    \* --- getAudioStream invocations: pc "idle", "gum" (awaiting getUserMedia), "done"
    call,
    \* --- GeminiLiveService fields (0 is null; a context or node is named by the
    \*     connect() invocation that created it, a session by its channel)
    sessionPromise, session,
    inputAudioContext, outputAudioContext,
    inputSource, processor, analyserNode,
    nextStartTime, sources,
    currentInputText, currentOutputText,
    \* --- the browser and the remote end
    inputOpen, outputOpen,  \* audio contexts created and not closed
    pump,                   \* pump[k]: the ScriptProcessorNode made by channel k's onopen:
                            \*   the context it lives in (0: not made), attached or not
    now,                    \* outputAudioContext.currentTime
    chan,                   \* chan[k]: "none", "connecting", "open", "closing", "closed"
    promise,                \* promise[k]: "none", "pending", "resolved"
    waiting,                \* waiting[k]: then-callbacks of captured frames on promise k
    \* --- invocations in flight
    conn,                   \* conn[k]: connect() k: pc and the stream it obtained
    discPending,            \* disconnect() invocations at `await this.session.close()`
    handlers,               \* handleServerMessage invocations at `await decodeAudioData`
    \* --- bookkeeping
    chunks,                 \* playback units started so far
    cursor,                 \* end of the unit started last since the cursor was reset,
                            \*   and whether the clock has overtaken the cursor since
    lastPlay,               \* the last source.start(): its time, the clock, the cursor record
    stopped,                \* channels whose session disconnect() has been invoked on
    out,                    \* what the last step delivered: callbacks and frames
    op,                     \* the operation the last step ran
    \* --- functions studied on their own
    arg,                    \* the input the function is applied to
    res                     \* what it has computed so far

micVars == <<permissionGranted, audioStream, isStreamActive, track, trackEnabled,
             endedSeen, gumCalls, call>>

fieldVars == <<sessionPromise, session, inputAudioContext, outputAudioContext,
               inputSource, processor, analyserNode, nextStartTime, sources,
               currentInputText, currentOutputText>>

envVars == <<inputOpen, outputOpen, pump, now, chan, promise, waiting>>

flightVars == <<conn, discPending, handlers>>

bookVars == <<chunks, cursor, lastPlay, stopped>>

stepVars == <<out, op>>

sessVars == <<fieldVars, envVars, flightVars, bookVars, stepVars>>

utilVars == <<arg, res>>

vars == <<micVars, sessVars, utilVars>>

\* call[k].dead is bookkeeping: the cached stream whose track had ended when the
\* call began (0 when there was none)
IdleCall == [pc |-> "idle", req |-> 0, ret |-> 0, dead |-> 0]

DeadCachedStream == IF audioStream # 0 /\ track[audioStream] = "ended" THEN audioStream ELSE 0

MicInit ==
    /\ permissionGranted = FALSE
    /\ audioStream = 0
    /\ isStreamActive = FALSE
    /\ track = [s \in StreamIds |-> "none"]
    /\ trackEnabled = [s \in StreamIds |-> FALSE]
    /\ endedSeen = {}
    /\ gumCalls = 0
    /\ call = [k \in CallIds |-> IdleCall]

\* MediaStream.active: the stream has a track that has not ended
StreamActive(s) == track[s] = "live"

\* getTracks().some(track => track.enabled && track.readyState === 'live')
HasActiveTracks(s) == trackEnabled[s] /\ track[s] = "live"

\* A mutant of CachedStreamUsable: the liveness of the cached stream is not looked at.
CachedStreamUsableNoLiveness ==
    audioStream # 0 /\ isStreamActive

\* A mutant of CachedStreamUsable: the test of stream.active is negated.
CachedStreamUsableNegated ==
    /\ audioStream # 0
    /\ isStreamActive
    /\ ~StreamActive(audioStream)

\* The condition under which getAudioStream returns the cached stream
CachedStreamUsable ==
    /\ audioStream # 0
    /\ isStreamActive
    /\ StreamActive(audioStream)
    /\ HasActiveTracks(audioStream)

\* MicrophoneManager.initialize: permissionGranted becomes true when the browser
\* reports 'granted', when the stored flag is found and the browser does not report
\* 'denied', or when the probe capture succeeds; otherwise it is left as it was.
Initialize(outcome) ==
    /\ permissionGranted' = (IF outcome \in {"granted", "stored", "probe_ok"}
                             THEN TRUE ELSE permissionGranted)
    /\ UNCHANGED <<audioStream, isStreamActive, track, trackEnabled, endedSeen,
                   gumCalls, call>>

\* getAudioStream up to its await of getUserMedia
GetAudioStreamStart(k) ==
    /\ call[k].pc = "idle"
    /\ IF CachedStreamUsable
       THEN /\ call' = [call EXCEPT ![k] = [pc |-> "done", req |-> 0, ret |-> audioStream,
                                            dead |-> DeadCachedStream]]
            /\ UNCHANGED <<isStreamActive, gumCalls>>
       ELSE /\ isStreamActive' = (IF audioStream # 0 THEN FALSE ELSE isStreamActive)
            /\ IF ~permissionGranted
               THEN /\ call' = [call EXCEPT ![k] = [pc |-> "done", req |-> 0, ret |-> 0,
                                                    dead |-> DeadCachedStream]]
                    /\ UNCHANGED gumCalls
               ELSE /\ gumCalls < MaxStreams
                    /\ gumCalls' = gumCalls + 1
                    /\ call' = [call EXCEPT ![k] =
                                  [pc |-> "gum", req |-> gumCalls + 1, ret |-> 0,
                                   dead |-> DeadCachedStream]]
    /\ UNCHANGED <<permissionGranted, audioStream, track, trackEnabled, endedSeen>>

\* getUserMedia resolves: the new stream is cached and returned
GetUserMediaResolve(k) ==
    /\ call[k].pc = "gum"
    /\ LET s == call[k].req IN
        /\ track' = [track EXCEPT ![s] = "live"]
        /\ trackEnabled' = [trackEnabled EXCEPT ![s] = TRUE]
        /\ audioStream' = s
        /\ isStreamActive' = TRUE
        /\ call' = [call EXCEPT ![k] = [@ EXCEPT !.pc = "done", !.req = 0, !.ret = s]]
    /\ UNCHANGED <<permissionGranted, endedSeen, gumCalls>>

\* cleanupAudio: stop the cached stream's tracks and forget it
TracksAfterCleanupAudio(as) ==
    IF as # 0 THEN [track EXCEPT ![as] = "ended"] ELSE track

\* getUserMedia rejects: the catch block of getAudioStream; a NotAllowedError
\* also runs clearPermission (which runs cleanupAudio on the already nulled cache)
GetUserMediaReject(k, err) ==
    /\ call[k].pc = "gum"
    /\ audioStream' = 0
    /\ isStreamActive' = FALSE
    /\ permissionGranted' = (IF err = "NotAllowedError" THEN FALSE ELSE permissionGranted)
    /\ track' = TracksAfterCleanupAudio(0)
    /\ call' = [call EXCEPT ![k] = [@ EXCEPT !.pc = "done", !.req = 0, !.ret = 0]]
    /\ UNCHANGED <<trackEnabled, endedSeen, gumCalls>>

\* The caller of getAudioStream takes the returned value
TakeResult(k) ==
    /\ call[k].pc = "done"
    /\ call' = [call EXCEPT ![k] = IdleCall]
    /\ UNCHANGED <<permissionGranted, audioStream, isStreamActive, track, trackEnabled,
                   endedSeen, gumCalls>>

\* Code outside the manager that holds the stream stops its track
ExternalStopTracks(s) ==
    /\ track[s] = "live"
    /\ track' = [track EXCEPT ![s] = "ended"]
    /\ UNCHANGED <<permissionGranted, audioStream, isStreamActive, trackEnabled,
                   endedSeen, gumCalls, call>>

\* Code outside the manager sets track.enabled
SetTrackEnabled(s, b) ==
    /\ track[s] = "live"
    /\ trackEnabled[s] # b
    /\ trackEnabled' = [trackEnabled EXCEPT ![s] = b]
    /\ UNCHANGED <<permissionGranted, audioStream, isStreamActive, track,
                   endedSeen, gumCalls, call>>

\* The 'ended' listener getAudioStream attached to stream s
StreamEnded(s) ==
    /\ track[s] = "ended"
    /\ s \notin endedSeen
    /\ endedSeen' = endedSeen \cup {s}
    /\ isStreamActive' = FALSE
    /\ UNCHANGED <<permissionGranted, audioStream, track, trackEnabled, gumCalls, call>>

\* cleanupAudio, the application teardown
CleanupAudio ==
    /\ track' = TracksAfterCleanupAudio(audioStream)
    /\ audioStream' = 0
    /\ isStreamActive' = FALSE
    /\ UNCHANGED <<permissionGranted, trackEnabled, endedSeen, gumCalls, call>>

\* clearPermission
ClearPermission ==
    /\ permissionGranted' = FALSE
    /\ track' = TracksAfterCleanupAudio(audioStream)
    /\ audioStream' = 0
    /\ isStreamActive' = FALSE
    /\ UNCHANGED <<trackEnabled, endedSeen, gumCalls, call>>

\* ------------------------------------------------------------ GeminiLiveService

NoOp == [name |-> "none", msg |-> 0, phase |-> "none"]
NoCursor == [end |-> -1, late |-> FALSE]
NoPlay == [start |-> -1, at |-> 0, dur |-> 0, prev |-> -1, late |-> FALSE]
NoPump == [ctx |-> 0, attached |-> FALSE]
IdleConn == [pc |-> "idle", stream |-> 0]

\* An event handed to the presentation layer (onTranscriptUpdate, onClose, onError
\* of the config given to connect() k) or a frame handed to session k
Ev(kind, k, text, user, final) ==
    [kind |-> kind, chan |-> k, text |-> text, user |-> user, final |-> final]

SessInit ==
    /\ sessionPromise = 0 /\ session = 0
    /\ inputAudioContext = 0 /\ outputAudioContext = 0
    /\ inputSource = 0 /\ processor = 0 /\ analyserNode = 0
    /\ nextStartTime = 0 /\ sources = {}
    /\ currentInputText = <<>> /\ currentOutputText = <<>>
    /\ inputOpen = {} /\ outputOpen = {}
    /\ pump = [k \in ConnIds |-> NoPump]
    /\ now = 0
    /\ chan = [k \in ConnIds |-> "none"]
    /\ promise = [k \in ConnIds |-> "none"]
    /\ waiting = [k \in ConnIds |-> 0]
    /\ conn = [k \in ConnIds |-> IdleConn]
    /\ discPending = 0
    /\ handlers = <<>>
    /\ chunks = 0
    /\ cursor = NoCursor
    /\ lastPlay = NoPlay
    /\ stopped = {}
    /\ out = <<>>
    /\ op = NoOp

\* No function is being studied
UtilInit == arg = 0 /\ res = 0

Init == MicInit /\ SessInit /\ UtilInit

\* A step that delivers nothing and is neither disconnect nor a message handler
Quiet == out' = <<>> /\ op' = NoOp

\* get isConnected
IsConnected == sessionPromise # 0 /\ session # 0

\* A mutant of CleanupTexts: cleanup() leaves the text buffers as they are.
CleanupTextsKept == <<currentInputText, currentOutputText>>

\* cleanup(): the text buffers after "Reset buffers"
CleanupTexts == << <<>>, <<>> >>

\* cleanup(): stop and drop the playback units, detach the pump, close and release
\* both contexts, drop the analyser, reset the buffers and the cursor.
\* (A context that is already closed is not released: the field keeps it.)
Cleanup ==
    /\ sources' = {}
    /\ pump' = IF processor # 0 THEN [pump EXCEPT ![processor].attached = FALSE] ELSE pump
    /\ processor' = 0
    /\ inputSource' = 0
    /\ inputOpen' = inputOpen \ {inputAudioContext}
    /\ inputAudioContext' = IF inputAudioContext \in inputOpen THEN 0 ELSE inputAudioContext
    /\ outputOpen' = outputOpen \ {outputAudioContext}
    /\ outputAudioContext' = IF outputAudioContext \in outputOpen THEN 0
                             ELSE outputAudioContext
    /\ now' = IF outputAudioContext \in outputOpen THEN 0 ELSE now
    /\ analyserNode' = 0
    /\ currentInputText' = CleanupTexts[1]
    /\ currentOutputText' = CleanupTexts[2]
    /\ nextStartTime' = 0
    /\ cursor' = NoCursor

\* The variables Cleanup leaves to the action that uses it
notCleanupVars == <<sessionPromise, session, chan, promise, waiting, conn, discPending,
                    handlers, chunks, lastPlay, stopped, out, op>>

\* connect() begins with no test of the service's state
ConnectGuard == TRUE

\* connect() up to `await this.inputAudioContext.resume()`: both contexts are made.
\* (Invocations are numbered in the order they begin.)
ConnectStart(k) ==
    /\ conn[k].pc = "idle"
    /\ \A j \in ConnIds : j < k => conn[j].pc # "idle"
    /\ ConnectGuard
    /\ inputAudioContext' = k
    /\ outputAudioContext' = k
    /\ inputOpen' = inputOpen \cup {k}
    /\ outputOpen' = outputOpen \cup {k}
    /\ now' = 0
    /\ conn' = [conn EXCEPT ![k].pc = "resume"]
    /\ Quiet
    /\ UNCHANGED <<sessionPromise, session, inputSource, processor, analyserNode,
                   nextStartTime, sources, currentInputText, currentOutputText,
                   pump, chan, promise, waiting, discPending, handlers, bookVars>>
    /\ UNCHANGED micVars

\* connect() after the two resume() awaits (no code lies between them): the
\* analyser is made on this.outputAudioContext, which throws when cleanup() has
\* nulled the field meanwhile; then getAudioStream is called.
ConnectAfterResume(k) ==
    /\ conn[k].pc = "resume"
    /\ IF outputAudioContext = 0
       THEN /\ conn' = [conn EXCEPT ![k].pc = "failed"]
            /\ UNCHANGED <<analyserNode, micVars>>
       ELSE /\ analyserNode' = outputAudioContext
            /\ conn' = [conn EXCEPT ![k].pc = "stream"]
            /\ GetAudioStreamStart(k)
    /\ Quiet
    /\ UNCHANGED <<sessionPromise, session, inputAudioContext, outputAudioContext,
                   inputSource, processor, nextStartTime, sources, currentInputText,
                   currentOutputText, envVars, discPending, handlers, bookVars>>

\* connect() once getAudioStream has returned: a null stream throws, otherwise
\* client.live.connect opens the channel and its promise is stored.
ConnectAfterStream(k) ==
    /\ conn[k].pc = "stream"
    /\ call[k].pc = "done"
    /\ TakeResult(k)
    /\ IF call[k].ret = 0
       THEN /\ conn' = [conn EXCEPT ![k].pc = "failed"]
            /\ UNCHANGED <<sessionPromise, chan, promise>>
       ELSE /\ conn' = [conn EXCEPT ![k] = [pc |-> "session", stream |-> call[k].ret]]
            /\ chan' = [chan EXCEPT ![k] = "connecting"]
            /\ promise' = [promise EXCEPT ![k] = "pending"]
            /\ sessionPromise' = k
    /\ Quiet
    /\ UNCHANGED <<session, inputAudioContext, outputAudioContext, inputSource, processor,
                   analyserNode, nextStartTime, sources, currentInputText,
                   currentOutputText, inputOpen, outputOpen, pump, now, waiting,
                   discPending, handlers, bookVars>>

\* The channel opens: the onopen callback runs startAudioInputStreaming(stream),
\* which returns at once when this.inputAudioContext is null.
ChannelOpen(k) ==
    /\ chan[k] = "connecting"
    /\ chan' = [chan EXCEPT ![k] = "open"]
    /\ IF inputAudioContext = 0
       THEN UNCHANGED <<inputSource, processor, pump>>
       ELSE /\ inputSource' = k
            /\ processor' = k
            /\ pump' = [pump EXCEPT ![k] = [ctx |-> inputAudioContext, attached |-> TRUE]]
    /\ Quiet
    /\ UNCHANGED <<sessionPromise, session, inputAudioContext, outputAudioContext,
                   analyserNode, nextStartTime, sources, currentInputText,
                   currentOutputText, inputOpen, outputOpen, now, promise, waiting,
                   flightVars, bookVars>>
    /\ UNCHANGED micVars

\* A frame handed to session.sendRealtimeInput of channel k
Frame(k) == Ev("frame", k, <<>>, FALSE, FALSE)

\* The promise of client.live.connect resolves with the session: the then-callbacks
\* of the frames captured meanwhile run, each sending its frame.
PromiseResolve(k) ==
    /\ chan[k] = "open"
    /\ promise[k] = "pending"
    /\ promise' = [promise EXCEPT ![k] = "resolved"]
    /\ waiting' = [waiting EXCEPT ![k] = 0]
    /\ out' = [i \in 1..waiting[k] |-> Frame(k)]
    /\ op' = NoOp
    /\ UNCHANGED <<fieldVars, inputOpen, outputOpen, pump, now, chan, flightVars, bookVars>>
    /\ UNCHANGED micVars

\* connect() after `await this.sessionPromise`
ConnectResume(k) ==
    /\ conn[k].pc = "session"
    /\ promise[k] = "resolved"
    /\ session' = k
    /\ conn' = [conn EXCEPT ![k].pc = "done"]
    /\ Quiet
    /\ UNCHANGED <<sessionPromise, inputAudioContext, outputAudioContext, inputSource,
                   processor, analyserNode, nextStartTime, sources, currentInputText,
                   currentOutputText, envVars, discPending, handlers, bookVars>>
    /\ UNCHANGED micVars

\* onaudioprocess: `if (!this.sessionPromise) return`
PumpMaySend == sessionPromise # 0

\* processor.onaudioprocess of pump p: the captured block is sent through
\* this.sessionPromise.then(...): at once when the promise is resolved, when it
\* resolves otherwise.
AudioProcess(p) ==
    /\ pump[p].ctx # 0
    /\ pump[p].attached
    /\ pump[p].ctx \in inputOpen
    /\ IF ~PumpMaySend
       THEN out' = <<>> /\ UNCHANGED waiting
       ELSE IF promise[sessionPromise] = "resolved"
            THEN out' = <<Frame(sessionPromise)>> /\ UNCHANGED waiting
            ELSE /\ waiting[sessionPromise] < MaxWaiting
                 /\ waiting' = [waiting EXCEPT ![sessionPromise] = @ + 1]
                 /\ out' = <<>>
    /\ op' = NoOp
    /\ UNCHANGED <<fieldVars, inputOpen, outputOpen, pump, now, chan, promise,
                   flightVars, bookVars>>
    /\ UNCHANGED micVars

\* A mutant of DisconnectEvents: disconnect() reports the close to the caller's config.
DisconnectEventsClose == <<Ev("close", 0, <<>>, FALSE, FALSE)>>

\* disconnect() invokes no callback of the config
DisconnectEvents == <<>>

\* disconnect() up to its first suspension. With no session held it runs to its
\* end at once. With a session, close() is called: when it throws at once the
\* error is caught and disconnect() runs to its end, the channel being left as
\* it was; otherwise close() is awaited (resolved or rejected, the code goes on
\* the same way).
DisconnectStart(closeThrows) ==
    /\ stopped' = stopped \cup ({session, sessionPromise} \ {0})
    /\ out' = DisconnectEvents
    /\ IF session = 0 \/ closeThrows
       THEN /\ session = 0 => ~closeThrows
            /\ session' = 0
            /\ sessionPromise' = 0
            /\ Cleanup
            /\ op' = [name |-> "disconnect", msg |-> 0,
                      phase |-> IF closeThrows THEN "caught" ELSE "returned"]
            /\ UNCHANGED <<chan, discPending>>
       ELSE /\ discPending < MaxDisc
            /\ discPending' = discPending + 1
            /\ chan' = [chan EXCEPT ![session] = IF @ = "open" THEN "closing" ELSE @]
            /\ op' = [name |-> "disconnect", msg |-> 0, phase |-> "awaiting"]
            /\ UNCHANGED <<fieldVars, inputOpen, outputOpen, pump, now, cursor>>
    /\ UNCHANGED <<promise, waiting, conn, handlers, chunks, lastPlay>>
    /\ UNCHANGED micVars

\* disconnect() after `await this.session.close()`
DisconnectFinish ==
    /\ discPending > 0
    /\ discPending' = discPending - 1
    /\ session' = 0
    /\ sessionPromise' = 0
    /\ Cleanup
    /\ out' = DisconnectEvents
    /\ op' = [name |-> "disconnect", msg |-> 0, phase |-> "returned"]
    /\ UNCHANGED <<chan, promise, waiting, conn, handlers, chunks, lastPlay, stopped>>
    /\ UNCHANGED micVars

\* The channel's close event (the remote end closed it, or session.close() did):
\* onclose runs cleanup() and config.onClose().
ChannelClosed(k) ==
    /\ chan[k] \in {"open", "closing"}
    /\ chan' = [chan EXCEPT ![k] = "closed"]
    /\ Cleanup
    /\ out' = <<Ev("close", k, <<>>, FALSE, FALSE)>>
    /\ op' = NoOp
    /\ UNCHANGED <<sessionPromise, session, promise, waiting, conn, discPending,
                   handlers, chunks, lastPlay, stopped>>
    /\ UNCHANGED micVars

\* The channel's error event: onerror runs cleanup() and config.onError(); the
\* socket then goes on to close.
ChannelError(k) ==
    /\ chan[k] = "open"
    /\ chan' = [chan EXCEPT ![k] = "closing"]
    /\ Cleanup
    /\ out' = <<Ev("error", k, <<>>, FALSE, FALSE)>>
    /\ op' = NoOp
    /\ UNCHANGED <<sessionPromise, session, promise, waiting, conn, discPending,
                   handlers, chunks, lastPlay, stopped>>
    /\ UNCHANGED micVars

\* ------------------------------------------------------------ inbound messages

Durations == {1, 2}

\* The audio member of a message whose payload cannot be decoded (atob, the
\* Int16Array view or createBuffer throws)
Undecodable == -1

\* A mutant of DecodeThrows: every payload decodes.
DecodeThrowsNever(m) == FALSE

\* decodeAudioData rejects
DecodeThrows(m) == m.audio = Undecodable

\* serverContent of a message: audio is the duration of the chunk it carries
\* (0: none), inText / outText the transcription texts as sequences of
\* characters (empty: absent or "")
Msg(a, i, it, ot, tc) ==
    [audio |-> a, interrupted |-> i, inText |-> it, outText |-> ot, turnComplete |-> tc]

RECURSIVE TrimStart(_)
TrimStart(t) == IF t # <<>> /\ Head(t) = " " THEN TrimStart(Tail(t)) ELSE t

RECURSIVE TrimEnd(_)
TrimEnd(t) == IF t # <<>> /\ t[Len(t)] = " " THEN TrimEnd(SubSeq(t, 1, Len(t) - 1)) ELSE t

\* String.prototype.trim
Trimmed(t) == TrimEnd(TrimStart(t))

\* A mutant of ScheduleTime: the chunk is scheduled at the clock's time.
ScheduleTimeNow(nst, t) == t

\* Math.max(this.nextStartTime, this.outputAudioContext.currentTime)
ScheduleTime(nst, t) == IF nst >= t THEN nst ELSE t

\* A mutant of CursorAfter: the duration is assigned, not added.
CursorAfterAssigned(nst, d) == d

\* this.nextStartTime += audioBuffer.duration
CursorAfter(nst, d) == nst + d

\* the interruption branch: this.currentOutputText = ""
InterruptedText(t) == <<>>

\* the interruption branch: this.nextStartTime = 0
InterruptedStart(nst) == 0

Transcript(c, text, user, final) == Ev("transcript", c, text, user, final)

\* handleServerMessage from the interruption branch to its end, for a message m
\* of channel c, given the playback units, the cursor and its history as the
\* audio branch left them.
RestOfMessage(c, m, srcs, nst, cur) ==
    LET out0 == IF m.interrupted THEN InterruptedText(currentOutputText)
                ELSE currentOutputText
        in1  == currentInputText \o m.inText
        ev1  == IF m.inText # <<>> THEN <<Transcript(c, in1, TRUE, FALSE)>> ELSE <<>>
        out1 == out0 \o m.outText
        ev2  == IF m.outText # <<>> THEN <<Transcript(c, out1, FALSE, FALSE)>> ELSE <<>>
        finIn  == m.turnComplete /\ Trimmed(in1) # <<>>
        finOut == m.turnComplete /\ Trimmed(out1) # <<>>
        ev3  == IF finIn THEN <<Transcript(c, in1, TRUE, TRUE)>> ELSE <<>>
        ev4  == IF finOut THEN <<Transcript(c, out1, FALSE, TRUE)>> ELSE <<>>
    IN  /\ Len(in1) <= MaxText
        /\ Len(out1) <= MaxText
        /\ sources' = IF m.interrupted THEN {} ELSE srcs
        /\ nextStartTime' = IF m.interrupted THEN InterruptedStart(nst) ELSE nst
        /\ cursor' = IF m.interrupted THEN NoCursor ELSE cur
        /\ currentInputText' = IF finIn THEN <<>> ELSE in1
        /\ currentOutputText' = IF finOut THEN <<>> ELSE out1
        /\ out' = ev1 \o ev2 \o ev3 \o ev4
        /\ op' = [name |-> "handleServerMessage", msg |-> m, phase |-> "done"]

\* onmessage of channel c: handleServerMessage up to `await this.decodeAudioData`
\* when the message carries audio and an output context is held, to its end
\* otherwise.
HandleServerMessage(c, m) ==
    /\ chan[c] = "open"
    /\ IF m.audio # 0 /\ outputAudioContext # 0
       THEN /\ chunks + Len(handlers) < MaxChunks
            /\ nextStartTime' = ScheduleTime(nextStartTime, now)
            /\ cursor' = [cursor EXCEPT !.late = @ \/ now > nextStartTime]
            /\ handlers' = Append(handlers, [chan |-> c, msg |-> m])
            /\ out' = <<>>
            /\ op' = [name |-> "handleServerMessage", msg |-> m, phase |-> "decoding"]
            /\ UNCHANGED <<sources, currentInputText, currentOutputText>>
       ELSE /\ RestOfMessage(c, m, sources, nextStartTime, cursor)
            /\ UNCHANGED handlers
    /\ UNCHANGED <<sessionPromise, session, inputAudioContext, outputAudioContext,
                   inputSource, processor, analyserNode, envVars, conn, discPending,
                   chunks, lastPlay, stopped>>
    /\ UNCHANGED micVars

\* handleServerMessage after `await this.decodeAudioData`, for the handler that
\* suspended first: createBufferSource on this.outputAudioContext throws when
\* cleanup() has nulled it; otherwise the unit is started at the cursor, the
\* cursor advances by the chunk's duration and the rest of the message is handled.
HandleResume ==
    /\ handlers # <<>>
    /\ handlers' = Tail(handlers)
    /\ LET h == Head(handlers)
           unit == [id |-> chunks + 1, start |-> nextStartTime, dur |-> h.msg.audio]
       IN  IF outputAudioContext = 0 \/ DecodeThrows(h.msg)
           THEN /\ out' = <<>>
                /\ op' = [name |-> "handleServerMessage", msg |-> h.msg, phase |-> "threw"]
                /\ UNCHANGED <<sources, nextStartTime, cursor, currentInputText,
                               currentOutputText, chunks, lastPlay>>
           ELSE /\ chunks' = chunks + 1
                /\ lastPlay' = [start |-> nextStartTime, at |-> now, dur |-> h.msg.audio,
                                prev |-> cursor.end, late |-> cursor.late]
                /\ RestOfMessage(h.chan, h.msg, sources \cup {unit},
                                 CursorAfter(nextStartTime, h.msg.audio),
                                 [end |-> nextStartTime + h.msg.audio, late |-> FALSE])
    /\ UNCHANGED <<sessionPromise, session, inputAudioContext, outputAudioContext,
                   inputSource, processor, analyserNode, envVars, conn, discPending,
                   stopped>>
    /\ UNCHANGED micVars

\* The output context's clock (outputAudioContext.currentTime) advances
Tick ==
    /\ outputAudioContext # 0
    /\ now < MaxTime
    /\ now' = now + 1
    /\ Quiet
    /\ UNCHANGED <<fieldVars, inputOpen, outputOpen, pump, chan, promise, waiting,
                   flightVars, bookVars>>
    /\ UNCHANGED micVars

\* source.onended of a unit that has played to its end
SourceEnded(u) ==
    /\ u \in sources
    /\ now >= u.start + u.dur
    /\ sources' = sources \ {u}
    /\ Quiet
    /\ UNCHANGED <<sessionPromise, session, inputAudioContext, outputAudioContext,
                   inputSource, processor, analyserNode, nextStartTime,
                   currentInputText, currentOutputText, envVars, flightVars, bookVars>>
    /\ UNCHANGED micVars

\* The steps of the capture manager as the session service drives it
MicStep ==
    /\ \/ \E o \in {"granted", "denied"} : Initialize(o)
       \/ \E k \in CallIds : GetUserMediaResolve(k)
       \/ \E k \in CallIds, e \in ErrKinds : GetUserMediaReject(k, e)
    /\ Quiet
    /\ UNCHANGED <<fieldVars, envVars, flightVars, bookVars>>

\* Messages of the session lifecycle: one partial transcript of the user's speech
LifecycleMsgs == {Msg(0, FALSE, <<"a">>, <<>>, FALSE)}

Next ==
    \/ MicStep /\ UNCHANGED utilVars
    \/ \E k \in ConnIds : ConnectStart(k) /\ UNCHANGED utilVars
    \/ \E k \in ConnIds : ConnectAfterResume(k) /\ UNCHANGED utilVars
    \/ \E k \in ConnIds : ConnectAfterStream(k) /\ UNCHANGED utilVars
    \/ \E k \in ConnIds : ChannelOpen(k) /\ UNCHANGED utilVars
    \/ \E k \in ConnIds : PromiseResolve(k) /\ UNCHANGED utilVars
    \/ \E k \in ConnIds : ConnectResume(k) /\ UNCHANGED utilVars
    \/ \E p \in ConnIds : AudioProcess(p) /\ UNCHANGED utilVars
    \/ \E closeThrows \in BOOLEAN : DisconnectStart(closeThrows) /\ UNCHANGED utilVars
    \/ DisconnectFinish /\ UNCHANGED utilVars
    \/ \E k \in ConnIds : ChannelClosed(k) /\ UNCHANGED utilVars
    \/ \E k \in ConnIds : ChannelError(k) /\ UNCHANGED utilVars
    \/ \E k \in ConnIds, m \in LifecycleMsgs : HandleServerMessage(k, m) /\ UNCHANGED utilVars

Spec == Init /\ [][Next]_vars

\* Messages of the playback scheduling: every combination of an audio chunk, an
\* interruption, a piece of the model's text and the end of the turn
PlaybackMsgs == {Msg(a, i, <<>>, ot, tc) : a \in {0} \cup Durations, i \in BOOLEAN,
                                          ot \in {<<>>, <<"a">>}, tc \in BOOLEAN}

\* The capture manager grants the stream to the one session of the playback runs
PlaybackMicStep ==
    /\ \/ Initialize("granted")
       \/ GetUserMediaResolve(1)
    /\ Quiet
    /\ UNCHANGED <<fieldVars, envVars, flightVars, bookVars>>

PlaybackNext ==
    \/ PlaybackMicStep /\ UNCHANGED utilVars
    \/ ConnectStart(1) /\ UNCHANGED utilVars
    \/ ConnectAfterResume(1) /\ UNCHANGED utilVars
    \/ ConnectAfterStream(1) /\ UNCHANGED utilVars
    \/ ChannelOpen(1) /\ UNCHANGED utilVars
    \/ PromiseResolve(1) /\ UNCHANGED utilVars
    \/ ConnectResume(1) /\ UNCHANGED utilVars
    \/ \E m \in PlaybackMsgs : HandleServerMessage(1, m) /\ UNCHANGED utilVars
    \/ HandleResume /\ UNCHANGED utilVars
    \/ Tick /\ UNCHANGED utilVars
    \/ \E u \in sources : SourceEnded(u) /\ UNCHANGED utilVars
    \/ ChannelClosed(1) /\ UNCHANGED utilVars

PlaybackSpec == Init /\ [][PlaybackNext]_vars

\* ------------------------------------------------------------ PCM conversion

NegScale == 32768      \* 0x8000
PosScale == 32767      \* 0x7FFF
DecodeScale == 32768   \* dataInt16[i] / 32768.0
Int16Size == 65536     \* values of a 16-bit element

Samples == -MaxSample..MaxSample

Abs(v) == IF v < 0 THEN -v ELSE v

\* Conversion of a quotient to an integer: the fraction is dropped, towards zero
TruncDiv(a, b) == IF a >= 0 THEN a \div b ELSE -((-a) \div b)

\* Storing an integer in an Int16Array element: modulo 2^16, into -32768..32767
ToInt16(v) == ((v + Int16Size \div 2) % Int16Size) - Int16Size \div 2

\* Math.max(-1, Math.min(1, x)), on a sample n/SampleScale
Clamp(n) == IF n < -SampleScale THEN -SampleScale
            ELSE IF n > SampleScale THEN SampleScale ELSE n

\* float32ToInt16, for one sample n/SampleScale
Float32ToInt16(n) ==
    LET sc == Clamp(n)
    IN  ToInt16(IF sc < 0 THEN TruncDiv(sc * NegScale, SampleScale)
                ELSE TruncDiv(sc * PosScale, SampleScale))

\* decodeAudioData, for one element: the sample is pcm/DecodeScale
DecodedSample(pcm) == [num |-> pcm, den |-> DecodeScale]

PcmInit ==
    /\ MicInit /\ SessInit
    /\ arg \in Samples
    /\ res = [stage |-> "input", pcm |-> 0, sample |-> DecodedSample(0)]

Encode ==
    /\ res.stage = "input"
    /\ res' = [res EXCEPT !.stage = "pcm", !.pcm = Float32ToInt16(arg)]
    /\ UNCHANGED <<arg, micVars, sessVars>>

Decode ==
    /\ res.stage = "pcm"
    /\ res' = [res EXCEPT !.stage = "decoded", !.sample = DecodedSample(res.pcm)]
    /\ UNCHANGED <<arg, micVars, sessVars>>

PcmNext == Encode \/ Decode

PcmSpec == PcmInit /\ [][PcmNext]_vars

\* ------------------------------------------------------------ batch transcription

MinDurationTenthsOpenRouter == 5   \* durationSec < 0.5
MinDurationTenthsGemini == 15      \* durationSec < 1.5
RateTenths == 4                    \* samples per tenth of a second (sampleRate / 10)

Variants == {"OpenRouter", "Gemini"}

\* Lengths of the chunks onaudioprocess records: 0.2 s, 0.5 s, 0.8 s
ChunkLengths == {2 * RateTenths, 5 * RateTenths, 8 * RateTenths}

RecordedSamples == UNION {[1..n -> ChunkLengths] : n \in 0..MaxRecorded}

RECURSIVE TotalLength(_)
\* this.recordedSamples.reduce((acc, arr) => acc + arr.length, 0)
TotalLength(rec) == IF rec = <<>> THEN 0 ELSE Head(rec) + TotalLength(Tail(rec))

\* The threshold of the variant, in tenths of a second
MinDurationTenths(variant) ==
    IF variant = "OpenRouter" THEN MinDurationTenthsOpenRouter ELSE MinDurationTenthsGemini

\* durationSec < threshold, with durationSec = totalLength / sampleRate
TooShort(variant, rec) == TotalLength(rec) < MinDurationTenths(variant) * RateTenths

BatchInit ==
    /\ MicInit /\ SessInit
    /\ arg \in [variant : Variants, recordedSamples : RecordedSamples]
    /\ res = [pc |-> "idle", ret |-> "", remoteCalls |-> 0]

\* processRecordedAudio up to `await this.transcribeWith...(base64Audio)`
ProcessRecordedAudio ==
    /\ res.pc = "idle"
    /\ res' = IF arg.recordedSamples = <<>> \/ TooShort(arg.variant, arg.recordedSamples)
              THEN [res EXCEPT !.pc = "done", !.ret = ""]
              ELSE [res EXCEPT !.pc = "remote", !.remoteCalls = @ + 1]
    /\ UNCHANGED <<arg, micVars, sessVars>>

\* The remote transcription resolves with a text (possibly empty)
TranscribeResolve(text) ==
    /\ res.pc = "remote"
    /\ res' = [res EXCEPT !.pc = "done", !.ret = text]
    /\ UNCHANGED <<arg, micVars, sessVars>>

\* The remote transcription rejects: the catch block returns ""
TranscribeReject ==
    /\ res.pc = "remote"
    /\ res' = [res EXCEPT !.pc = "done", !.ret = ""]
    /\ UNCHANGED <<arg, micVars, sessVars>>

BatchNext ==
    \/ ProcessRecordedAudio
    \/ \E text \in {"", "text"} : TranscribeResolve(text)
    \/ TranscribeReject

BatchSpec == BatchInit /\ [][BatchNext]_vars

\* ------------------------------------------------------------ capture failures

\* What checkMicrophonePermission resolves to ("null": no Permissions API)
PermissionStates == {"granted", "denied", "prompt", "null"}

\* What initialize() returns, given the browser's permission state, the stored
\* flag and the outcome of the probe capture ("ok" or the error's name)
InitializeReturn(permissionStatus, hasStoredPermission, probe) ==
    IF permissionStatus = "granted" THEN "true"
    ELSE IF hasStoredPermission /\ permissionStatus # "denied" THEN "true"
    ELSE IF permissionStatus = "denied" THEN "false"
    ELSE IF probe = "ok" THEN "true"
    ELSE "false"

\* What getAudioStream() returns from its catch block
GetAudioStreamCatchReturn(err) == "null"

\* Two capture requests that fail, each with its own error, made through
\* initialize (no permission known, none stored) or through getAudioStream
FailureInit ==
    /\ MicInit /\ SessInit
    /\ arg \in [fn : {"initialize", "getAudioStream"},
                permissionStatus : {"prompt", "null"},
                err : [1..2 -> ErrKinds]]
    /\ arg.fn = "getAudioStream" => arg.permissionStatus = "prompt"
    /\ res = [ran |-> {}, ret |-> [i \in 1..2 |-> "pending"]]

\* Request i is made and fails with arg.err[i]
FailingRequest(i) ==
    /\ i \notin res.ran
    /\ res' = [ran |-> res.ran \cup {i},
               ret |-> [res.ret EXCEPT ![i] =
                          IF arg.fn = "initialize"
                          THEN InitializeReturn(arg.permissionStatus, FALSE, arg.err[i])
                          ELSE GetAudioStreamCatchReturn(arg.err[i])]]
    /\ UNCHANGED <<arg, micVars, sessVars>>

FailureNext == \E i \in 1..2 : FailingRequest(i)

FailureSpec == FailureInit /\ [][FailureNext]_vars

\* ------------------------------------------------------------ stored permission

\* A mutant of StoreAfterClear: the stored flag is left where it is.
StoreAfterClearKept(st, cloudAvailable, cloudRemove, localRemove) == st

\* clearPermission: the flag is removed from localStorage (an exception is logged)
\* and, when Telegram's cloud storage is there, from it (an error is logged)
StoreAfterClear(st, cloudAvailable, cloudRemove, localRemove) ==
    [local |-> IF localRemove = "ok" THEN FALSE ELSE st.local,
     cloud |-> IF cloudAvailable /\ cloudRemove = "ok" THEN FALSE ELSE st.cloud]

\* The manager with a flag stored by an earlier initialize(), no stream cached,
\* and the outcomes the browser and the stores will give
StoreInit ==
    /\ MicInit /\ SessInit
    /\ arg \in [cloudAvailable : BOOLEAN, err : ErrKinds,
                cloudRemove : {"ok", "error"}, localRemove : {"ok", "throws"},
                stored : [local : BOOLEAN, cloud : BOOLEAN]]
    /\ res \in [pc : {"idle"}, permissionGranted : BOOLEAN, ret : {"pending"},
                caught : {FALSE}, threw : {FALSE}, stored : {arg.stored}]
    /\ arg.stored.cloud => arg.cloudAvailable
    /\ ~arg.cloudAvailable => arg.cloudRemove = "ok"

\* getAudioStream with nothing cached: null without permission, else the request
StoreGetAudioStream ==
    /\ res.pc = "idle"
    /\ res' = IF ~res.permissionGranted
              THEN [res EXCEPT !.pc = "done", !.ret = "null"]
              ELSE [res EXCEPT !.pc = "gum"]
    /\ UNCHANGED <<arg, micVars, sessVars>>

\* getUserMedia rejects with arg.err: the catch block
StoreGetUserMediaReject ==
    /\ res.pc = "gum"
    /\ res' = IF arg.err = "NotAllowedError"
              THEN [res EXCEPT !.pc = "done", !.ret = GetAudioStreamCatchReturn(arg.err),
                               !.caught = TRUE, !.permissionGranted = FALSE,
                               !.stored = StoreAfterClear(@, arg.cloudAvailable,
                                                          arg.cloudRemove, arg.localRemove)]
              ELSE [res EXCEPT !.pc = "done", !.ret = GetAudioStreamCatchReturn(arg.err),
                               !.caught = TRUE]
    /\ UNCHANGED <<arg, micVars, sessVars>>

\* getUserMedia resolves: the stream is returned
StoreGetUserMediaResolve ==
    /\ res.pc = "gum"
    /\ res' = [res EXCEPT !.pc = "done", !.ret = "stream"]
    /\ UNCHANGED <<arg, micVars, sessVars>>

StoreNext == StoreGetAudioStream \/ StoreGetUserMediaReject \/ StoreGetUserMediaResolve

StoreSpec == StoreInit /\ [][StoreNext]_vars

\* ------------------------------------------------------------ getAudioStreamWithRetry

MaxRetries == 3
RetryDelayMs == 500

\* What one getAudioStream call gives the loop: it catches every failure itself
AttemptOutcomes == {"stream", GetAudioStreamCatchReturn("NotFoundError")}

\* A call of getAudioStreamWithRetry(maxRetries) and what each attempt will give
RetryInit ==
    /\ MicInit /\ SessInit
    /\ arg \in [maxRetries : 1..MaxRetries, cached : BOOLEAN,
                outcome : [1..MaxRetries -> AttemptOutcomes]]
    /\ res = [pc |-> "start", i |-> 0, calls |-> 0, delays |-> <<>>, ret |-> "pending"]

\* the cached active stream is returned without an attempt
RetryStart ==
    /\ res.pc = "start"
    /\ res' = IF arg.cached THEN [res EXCEPT !.pc = "done", !.ret = "stream"]
              ELSE [res EXCEPT !.pc = "loop"]
    /\ UNCHANGED <<arg, micVars, sessVars>>

\* one iteration of the loop: a stream is returned, null goes straight to the
\* next iteration; only the catch block waits or throws
RetryAttempt(threw) ==
    /\ res.pc = "loop" /\ res.i < arg.maxRetries
    /\ LET r == [res EXCEPT !.calls = @ + 1] IN
       res' = IF threw
              THEN IF res.i = arg.maxRetries - 1
                   THEN [r EXCEPT !.pc = "done", !.ret = "error"]
                   ELSE [r EXCEPT !.i = @ + 1,
                                  !.delays = Append(@, RetryDelayMs * (res.i + 1))]
              ELSE IF arg.outcome[res.i + 1] = "stream"
                   THEN [r EXCEPT !.pc = "done", !.ret = "stream"]
                   ELSE [r EXCEPT !.i = @ + 1]
    /\ UNCHANGED <<arg, micVars, sessVars>>

\* the loop ran out: null
RetryExhausted ==
    /\ res.pc = "loop" /\ res.i >= arg.maxRetries
    /\ res' = [res EXCEPT !.pc = "done", !.ret = "null"]
    /\ UNCHANGED <<arg, micVars, sessVars>>

\* getAudioStream returns null on every failure, so no attempt throws
RetryNext == RetryStart \/ RetryAttempt(FALSE) \/ RetryExhausted

RetrySpec == RetryInit /\ [][RetryNext]_vars

\* ------------------------------------------------------------ initialize

\* A mutant of HasStoredPermission: the stores are not consulted.
HasStoredPermissionNever(st, cloudAvailable, cloudGet, localGet) == FALSE

\* getStoredPermission: the cloud store first; on an error or another value,
\* localStorage, whose exception counts as "not stored"
HasStoredPermission(st, cloudAvailable, cloudGet, localGet) ==
    IF cloudAvailable /\ cloudGet = "ok" /\ st.cloud
    THEN TRUE
    ELSE localGet = "ok" /\ st.local

\* storePermission: the cloud store when it is there, localStorage when it is
\* not or when it reports an error; a localStorage exception is logged
StoreAfterStore(st, cloudAvailable, cloudSet, localSet) ==
    IF cloudAvailable /\ cloudSet = "ok"
    THEN [st EXCEPT !.cloud = TRUE]
    ELSE IF localSet = "ok" THEN [st EXCEPT !.local = TRUE] ELSE st

\* A call of initialize() with what the browser and the stores will answer
InitializeInit ==
    /\ MicInit /\ SessInit
    /\ arg \in [permissionStatus : PermissionStates, cloudAvailable : BOOLEAN,
                stored : [local : BOOLEAN, cloud : BOOLEAN],
                cloudGet : {"ok", "error"}, localGet : {"ok", "throws"},
                cloudSet : {"ok", "error"}, localSet : {"ok", "throws"},
                probe : {"ok"} \cup ErrKinds]
    /\ arg.stored.cloud => arg.cloudAvailable
    /\ ~arg.cloudAvailable => (arg.cloudGet = "ok" /\ arg.cloudSet = "ok")
    /\ res = [pc |-> "query", permissionGranted |-> FALSE, ret |-> "pending",
              requests |-> 0, probeTrack |-> "none", stored |-> arg.stored]

\* checkMicrophonePermission has answered
InitializeQueried ==
    /\ res.pc = "query"
    /\ res' = IF arg.permissionStatus = "granted"
              THEN [res EXCEPT !.pc = "done", !.ret = "true", !.permissionGranted = TRUE,
                               !.stored = StoreAfterStore(@, arg.cloudAvailable,
                                                          arg.cloudSet, arg.localSet)]
              ELSE [res EXCEPT !.pc = "stored"]
    /\ UNCHANGED <<arg, micVars, sessVars>>

\* getStoredPermission has answered: true, false, or the probe request is made
InitializeStoreRead ==
    /\ res.pc = "stored"
    /\ res' = IF /\ HasStoredPermission(res.stored, arg.cloudAvailable,
                                        arg.cloudGet, arg.localGet)
                 /\ arg.permissionStatus # "denied"
              THEN [res EXCEPT !.pc = "done", !.ret = "true", !.permissionGranted = TRUE]
              ELSE IF arg.permissionStatus = "denied"
              THEN [res EXCEPT !.pc = "done", !.ret = "false"]
              ELSE [res EXCEPT !.pc = "probe", !.requests = @ + 1]
    /\ UNCHANGED <<arg, micVars, sessVars>>

\* the probe request is answered: its tracks are stopped and the flag stored,
\* or the error is logged
InitializeProbed ==
    /\ res.pc = "probe"
    /\ res' = IF arg.probe = "ok"
              THEN [res EXCEPT !.pc = "done", !.permissionGranted = TRUE,
                               !.probeTrack = "ended",
                               !.ret = InitializeReturn(arg.permissionStatus, FALSE, "ok"),
                               !.stored = StoreAfterStore(@, arg.cloudAvailable,
                                                          arg.cloudSet, arg.localSet)]
              ELSE [res EXCEPT !.pc = "done",
                               !.ret = InitializeReturn(arg.permissionStatus, FALSE,
                                                        arg.probe)]
    /\ UNCHANGED <<arg, micVars, sessVars>>

InitializeNext == InitializeQueried \/ InitializeStoreRead \/ InitializeProbed

InitializeSpec == InitializeInit /\ [][InitializeNext]_vars

\* ------------------------------------------------------------ transcripts

\* Fragments of transcription: a word or white space
Fragments == {<<"a">>, <<" ">>}

\* Messages of a conversation: a fragment of the user's or of the model's text,
\* the end of a turn, an interruption, an audio chunk with its caption, a message
\* that carries both texts and the end of the turn, and one whose audio payload
\* cannot be decoded
TranscriptMsgs ==
    {Msg(0, FALSE, f, <<>>, FALSE) : f \in Fragments}
    \cup {Msg(0, FALSE, <<>>, f, FALSE) : f \in Fragments}
    \cup {Msg(0, FALSE, <<>>, <<>>, TRUE), Msg(0, TRUE, <<>>, <<>>, FALSE),
          Msg(1, FALSE, <<>>, <<"a">>, FALSE), Msg(0, FALSE, <<"a">>, <<"a">>, TRUE),
          Msg(Undecodable, FALSE, <<>>, <<"a">>, TRUE)}

\* The fragments received, in the order of arrival, since the last turn complete
\* (for the model: or interruption), as of the last partial events (said*) and as
\* of now (user, model)
Received(r, m) ==
    LET u == r.user \o m.inText
        d == (IF m.interrupted THEN <<>> ELSE r.model) \o m.outText
    IN  [saidUser |-> u, saidModel |-> d,
         user |-> IF m.turnComplete THEN <<>> ELSE u,
         model |-> IF m.turnComplete THEN <<>> ELSE d]

TranscriptInit ==
    /\ MicInit /\ SessInit /\ arg = 0
    /\ res = [saidUser |-> <<>>, saidModel |-> <<>>, user |-> <<>>, model |-> <<>>]

\* onmessage, with the record of what has been received
TranscriptMessage(m) ==
    /\ HandleServerMessage(1, m)
    /\ Len(res.user \o m.inText) <= MaxText + MaxChunks
    /\ Len(res.model \o m.outText) <= MaxText + MaxChunks
    /\ res' = Received(res, m)
    /\ UNCHANGED arg

\* the handler of an audio message resumes: its events come now
TranscriptResume ==
    /\ HandleResume
    /\ res' = [res EXCEPT !.saidUser = res.user, !.saidModel = res.model]
    /\ UNCHANGED arg

TranscriptNext ==
    \/ PlaybackMicStep /\ UNCHANGED utilVars
    \/ ConnectStart(1) /\ UNCHANGED utilVars
    \/ ConnectAfterResume(1) /\ UNCHANGED utilVars
    \/ ConnectAfterStream(1) /\ UNCHANGED utilVars
    \/ ChannelOpen(1) /\ UNCHANGED utilVars
    \/ PromiseResolve(1) /\ UNCHANGED utilVars
    \/ ConnectResume(1) /\ UNCHANGED utilVars
    \/ \E m \in TranscriptMsgs : TranscriptMessage(m)
    \/ TranscriptResume

TranscriptSpec == TranscriptInit /\ [][TranscriptNext]_vars

\* ------------------------------------------------------------ sendQueryToN8n

TimeoutMs == 10000
MaxLatencyMs == 15000

\* A JavaScript value as far as its shape goes: what it is, the types of its
\* aiResponse and meta members and of meta.shouldSpeak, and which text it holds
Value(kind, aiResponse, meta, shouldSpeak, text) ==
    [kind |-> kind, aiResponse |-> aiResponse, meta |-> meta,
     shouldSpeak |-> shouldSpeak, text |-> text]

Pending == Value("pending", "undefined", "undefined", "undefined", "")

\* The reply of the catch block
Apology == Value("object", "string", "object", "true", "apology")

\* The reply of mockN8nResponse
MockReply == Value("object", "string", "object", "true", "mock")

\* The values a JSON body can parse to: a well-formed reply, an object without
\* the members, an object whose members have other types, null
JsonValues ==
    {Value("object", "string", "object", b, "reply") : b \in {"true", "false"}}
    \cup {Value("object", "undefined", "undefined", "undefined", "reply"),
          Value("object", "number", "string", "undefined", "reply"),
          Value("object", "string", "object", "undefined", "reply"),
          Value("null", "undefined", "undefined", "undefined", "")}

\* response.json(): the parsed value, or an exception for a body that is no JSON
Bodies == JsonValues \cup {Value("not json", "undefined", "undefined", "undefined", "")}

Statuses == {200, 404, 500}

\* A call of sendQueryToN8n and what the network will do
N8nInit ==
    /\ MicInit /\ SessInit
    /\ arg \in [mock : BOOLEAN, net : {"response", "network error"},
                latency : {0, TimeoutMs, MaxLatencyMs}, status : Statuses, body : Bodies]
    /\ res = [pc |-> "start", settled |-> "pending", ret |-> Pending]

\* up to the first await: the mock's delay or the fetch, with its abort timer
SendQueryToN8n ==
    /\ res.pc = "start"
    /\ res' = [res EXCEPT !.pc = IF arg.mock THEN "mock" ELSE "fetch"]
    /\ UNCHANGED <<arg, micVars, sessVars>>

\* the mock's timer fires
MockN8nResponse ==
    /\ res.pc = "mock"
    /\ res' = [res EXCEPT !.pc = "done", !.settled = "resolved", !.ret = MockReply]
    /\ UNCHANGED <<arg, micVars, sessVars>>

\* fetch settles: aborted by the timer when nothing came within TimeoutMs,
\* rejected on a network error; a response that is not ok throws
FetchSettled ==
    /\ res.pc = "fetch"
    /\ res' = IF arg.latency >= TimeoutMs \/ arg.net = "network error"
                 \/ arg.status # 200
              THEN [res EXCEPT !.pc = "done", !.settled = "resolved", !.ret = Apology]
              ELSE [res EXCEPT !.pc = "json"]
    /\ UNCHANGED <<arg, micVars, sessVars>>

\* response.json() settles: `return data as N8nResponse`, or the catch block
JsonSettled ==
    /\ res.pc = "json"
    /\ res' = IF arg.body.kind = "not json"
              THEN [res EXCEPT !.pc = "done", !.settled = "resolved", !.ret = Apology]
              ELSE [res EXCEPT !.pc = "done", !.settled = "resolved", !.ret = arg.body]
    /\ UNCHANGED <<arg, micVars, sessVars>>

N8nNext == SendQueryToN8n \/ MockN8nResponse \/ FetchSettled \/ JsonSettled

N8nSpec == N8nInit /\ [][N8nNext]_vars

\* ------------------------------------------------------------ application state

MaxTimers == 2

AppStates == {"IDLE", "LISTENING", "PROCESSING", "SPEAKING", "ERROR"}

\* The two applications: App.tsx (recognition, backend, speech) and the one
\* built on the live session
AppVariants == {"batch", "live"}

Flows == {"voice", "text"}

\* setAppState(s); `failed` records that an error path was taken since the state
\* was last IDLE, `recovered` that IDLE was reached after one
SetAppState(r, s) ==
    [r EXCEPT !.appState = s,
              !.recovered = IF s = "IDLE" /\ r.failed THEN TRUE ELSE @,
              !.failed = IF s = "IDLE" THEN FALSE ELSE @]

\* A mutant of ErrorTimers: the catch block arms no timer.
ErrorTimersNone(t) == t

\* setTimeout(() => setAppState(AppState.IDLE), 3000)
ErrorTimers(t) == t + 1

\* The catch blocks and onError: setAppState(ERROR) and the timer back to IDLE
ErrorCatch(r) ==
    SetAppState([r EXCEPT !.failed = TRUE, !.timers = ErrorTimers(@)], "ERROR")

AppInit ==
    /\ MicInit /\ SessInit
    /\ arg \in [variant : AppVariants]
    /\ res = [appState |-> "IDLE", voice |-> "none", text |-> "none", timers |-> 0,
              live |-> "none", failed |-> FALSE, recovered |-> FALSE]

AppUnchanged == UNCHANGED <<arg, micVars, sessVars>>

\* handleMicButton in IDLE: runVoiceConversation up to its first await
MicButtonStart ==
    /\ res.appState = "IDLE" /\ res.voice = "none"
    /\ res' = IF arg.variant = "batch"
              THEN [res EXCEPT !.voice = "analysis"]
              ELSE [res EXCEPT !.voice = "connect", !.live = "connecting"]
    /\ AppUnchanged

\* startAudioAnalysis settles
AnalysisSettled(ok) ==
    /\ res.voice = "analysis"
    /\ ~ok => res.timers < MaxTimers
    /\ res' = IF ok THEN SetAppState([res EXCEPT !.voice = "listen"], "LISTENING")
              ELSE ErrorCatch([res EXCEPT !.voice = "none"])
    /\ AppUnchanged

\* listen() settles: a transcript, nothing, or nothing because capture failed
ListenSettled(outcome) ==
    /\ res.voice = "listen"
    /\ res' = CASE outcome = "text" ->
                     SetAppState([res EXCEPT !.voice = "n8n"], "PROCESSING")
                [] outcome = "empty" ->
                     SetAppState([res EXCEPT !.voice = "none"], "IDLE")
                [] OTHER ->
                     SetAppState([res EXCEPT !.voice = "none", !.failed = TRUE], "IDLE")
    /\ AppUnchanged

\* handleTextSubmit up to `await voiceService.prepareForSpeech()`
TextSubmit ==
    /\ res.text = "none"
    /\ res' = [res EXCEPT !.text = "prepare"]
    /\ AppUnchanged

\* prepareForSpeech settles: processQuery up to its await of sendQueryToN8n
PrepareSettled ==
    /\ res.text = "prepare"
    /\ res' = SetAppState([res EXCEPT !.text = "n8n"], "PROCESSING")
    /\ AppUnchanged

\* sendQueryToN8n settles in processQuery of flow f: a reply to speak, a reply
\* not to speak, the apology, or a value without meta (reading it throws)
N8nSettled(f, reply) ==
    /\ res[f] = "n8n"
    /\ reply = "malformed" => res.timers < MaxTimers
    /\ res' = CASE reply = "speak" ->
                     SetAppState([res EXCEPT ![f] = "speak"], "SPEAKING")
                [] reply = "apology" ->
                     SetAppState([res EXCEPT ![f] = "speak", !.failed = TRUE], "SPEAKING")
                [] reply = "silent" ->
                     SetAppState([res EXCEPT ![f] = "none"], "IDLE")
                [] OTHER ->
                     ErrorCatch([res EXCEPT ![f] = "none"])
    /\ AppUnchanged

\* voiceService.speak settles in processQuery of flow f; a rejection is caught
SpeakSettled(f, ok) ==
    /\ res[f] = "speak"
    /\ res' = SetAppState([res EXCEPT ![f] = "none", !.failed = @ \/ ~ok], "IDLE")
    /\ AppUnchanged

\* the error timer fires
TimerFires ==
    /\ res.timers > 0
    /\ res' = SetAppState([res EXCEPT !.timers = @ - 1], "IDLE")
    /\ AppUnchanged

\* geminiService.connect settles in runVoiceConversation
ConnectSettled(ok) ==
    /\ res.voice = "connect"
    /\ ~ok => res.timers < MaxTimers
    /\ res' = IF ok
              THEN SetAppState([res EXCEPT !.voice = "none",
                                           !.live = IF @ = "connecting" THEN "open" ELSE @],
                               "LISTENING")
              ELSE ErrorCatch([res EXCEPT !.voice = "none", !.live = "none"])
    /\ AppUnchanged

\* onTranscriptUpdate with a partial text
TranscriptUpdate(isUser) ==
    /\ res.live \in {"connecting", "open", "faulted"}
    /\ res' = SetAppState(res, IF isUser THEN "LISTENING" ELSE "SPEAKING")
    /\ AppUnchanged

\* onClose
OnClose ==
    /\ res.live \in {"connecting", "open", "faulted"}
    /\ res' = SetAppState([res EXCEPT !.live = "none", !.failed = TRUE], "IDLE")
    /\ AppUnchanged

\* onError
OnError ==
    /\ res.live \in {"connecting", "open"}
    /\ res.timers < MaxTimers
    /\ res' = ErrorCatch([res EXCEPT !.live = "faulted"])
    /\ AppUnchanged

\* handleMicButton in LISTENING or SPEAKING of the live application
MicButtonStop ==
    /\ arg.variant = "live"
    /\ res.appState \in {"LISTENING", "SPEAKING"}
    /\ res' = SetAppState([res EXCEPT !.live = "none"], "IDLE")
    /\ AppUnchanged

\* What promises, callbacks and timers do by themselves
AppSettles ==
    \/ \E ok \in BOOLEAN : AnalysisSettled(ok)
    \/ PrepareSettled
    \/ \E f \in Flows, reply \in {"speak", "silent", "apology", "malformed"} :
          N8nSettled(f, reply)
    \/ \E f \in Flows, ok \in BOOLEAN : SpeakSettled(f, ok)
    \/ \E ok \in BOOLEAN : ConnectSettled(ok)
    \/ TimerFires

AppNext ==
    \/ MicButtonStart
    \/ TextSubmit
    \/ MicButtonStop
    \/ \E outcome \in {"text", "empty", "capture failure"} : ListenSettled(outcome)
    \/ \E isUser \in BOOLEAN : TranscriptUpdate(isUser)
    \/ OnClose
    \/ OnError
    \/ AppSettles

AppSpec == AppInit /\ [][AppNext]_vars

\* Every timer fires and every pending promise settles
AppFairSpec ==
    /\ AppSpec
    /\ WF_vars(TimerFires)
    /\ WF_vars(PrepareSettled)
    /\ WF_vars(\E ok \in BOOLEAN : AnalysisSettled(ok))
    /\ WF_vars(\E ok \in BOOLEAN : ConnectSettled(ok))
    /\ \A f \in Flows :
          /\ WF_vars(\E reply \in {"speak", "silent", "apology", "malformed"} :
                        N8nSettled(f, reply))
          /\ WF_vars(\E ok \in BOOLEAN : SpeakSettled(f, ok))

\* ------------------------------------------------------------ constraint fallback

\* The components that call getUserMedia: the capture manager (used by the live
\* session and the live transcription) and the two VoiceService versions
Acquirers == {"MicrophoneManager", "VoiceService OpenRouter", "VoiceService Gemini"}

CaptureErrors == ErrKinds \cup {"OverconstrainedError"}

\* Whether the catch block of the component asks again with { audio: true }
RetriesRelaxed(component, err) ==
    component = "VoiceService Gemini" /\ err = "OverconstrainedError"

\* An acquisition with nothing cached and permission known, and what the first
\* and a second getUserMedia call will answer
AcquireInit ==
    /\ MicInit /\ SessInit
    /\ arg \in [component : Acquirers, first : {"ok"} \cup CaptureErrors,
                second : {"ok"} \cup CaptureErrors]
    /\ res = [pc |-> "start", requests |-> 0, relaxed |-> 0, ret |-> "pending"]

\* up to the await of getUserMedia
AcquireStart ==
    /\ res.pc = "start"
    /\ res' = [res EXCEPT !.pc = "first", !.requests = 1]
    /\ UNCHANGED <<arg, micVars, sessVars>>

\* the first request settles
AcquireFirstSettled ==
    /\ res.pc = "first"
    /\ res' = IF arg.first = "ok"
              THEN [res EXCEPT !.pc = "done", !.ret = "stream"]
              ELSE IF RetriesRelaxed(arg.component, arg.first)
              THEN [res EXCEPT !.pc = "second", !.requests = @ + 1, !.relaxed = @ + 1]
              ELSE [res EXCEPT !.pc = "done", !.ret = "null"]
    /\ UNCHANGED <<arg, micVars, sessVars>>

\* the request with { audio: true } settles
AcquireRetrySettled ==
    /\ res.pc = "second"
    /\ res' = [res EXCEPT !.pc = "done",
                          !.ret = IF arg.second = "ok" THEN "stream" ELSE "null"]
    /\ UNCHANGED <<arg, micVars, sessVars>>

AcquireNext == AcquireStart \/ AcquireFirstSettled \/ AcquireRetrySettled

AcquireSpec == AcquireInit /\ [][AcquireNext]_vars

\* ------------------------------------------------------------ listen / stopListening

MaxStops == 1

\* A call of listen(): whether the Web Speech recogniser exists, and the version
ListenInit ==
    /\ MicInit /\ SessInit
    /\ arg \in [recognition : BOOLEAN, variant : Variants]
    /\ res = [pc |-> "start", isRecording |-> FALSE, recordedSamples |-> <<>>,
              stops |-> 0, stoppedIn |-> "none", ret |-> "pending"]

ListenUnchanged == UNCHANGED <<arg, micVars, sessVars>>

\* listen() up to its first await: listenWithWebSpeech when the recogniser
\* exists, the recording path otherwise
Listen ==
    /\ res.pc = "start"
    /\ res' = [res EXCEPT !.pc = IF arg.recognition THEN "webspeech" ELSE "setup"]
    /\ ListenUnchanged

\* The recogniser ends the attempt: onresult with a transcript resolves listen();
\* onend or a no-speech / aborted error gives "" and any other error rejects,
\* and both fall back to the recording path
WebSpeechSettled(outcome) ==
    /\ res.pc = "webspeech"
    /\ res' = IF outcome = "transcript"
              THEN [res EXCEPT !.pc = "done", !.ret = "text"]
              ELSE [res EXCEPT !.pc = "setup"]
    /\ ListenUnchanged

\* prepareForSpeech and requestMicrophoneAccess settle: recording starts and
\* waits for stopListening, or the failure makes listen() resolve ""
RecordingSetupSettled(ok) ==
    /\ res.pc = "setup"
    /\ res' = IF ok
              THEN [res EXCEPT !.pc = "recording", !.isRecording = TRUE,
                               !.recordedSamples = <<>>]
              ELSE [res EXCEPT !.pc = "done", !.ret = ""]
    /\ ListenUnchanged

\* onaudioprocess while recording
RecordChunk(len) ==
    /\ res.pc = "recording" /\ res.isRecording
    /\ Len(res.recordedSamples) < MaxRecorded
    /\ res' = [res EXCEPT !.recordedSamples = Append(@, len)]
    /\ ListenUnchanged

\* stopListening(): the recording, if one runs, is ended and handed to
\* processRecordedAudio; recognition.stop() is called
StopListening ==
    /\ res.pc \notin {"start", "done"}
    /\ res.stops < MaxStops
    /\ res' = IF res.pc = "recording" /\ res.isRecording
              THEN [res EXCEPT !.stops = @ + 1, !.stoppedIn = res.pc,
                               !.isRecording = FALSE, !.pc = "processing"]
              ELSE [res EXCEPT !.stops = @ + 1, !.stoppedIn = res.pc]
    /\ ListenUnchanged

\* processRecordedAudio settles: recordingResolve gets the transcript, or ""
ProcessingSettled(text) ==
    /\ res.pc = "processing"
    /\ (res.recordedSamples = <<>> \/ TooShort(arg.variant, res.recordedSamples))
       => text = ""
    /\ res' = [res EXCEPT !.pc = "done", !.ret = text]
    /\ ListenUnchanged

ListenNext ==
    \/ Listen
    \/ \E outcome \in {"transcript", "empty", "error"} : WebSpeechSettled(outcome)
    \/ \E ok \in BOOLEAN : RecordingSetupSettled(ok)
    \/ \E len \in ChunkLengths : RecordChunk(len)
    \/ StopListening
    \/ \E text \in {"", "text"} : ProcessingSettled(text)

ListenSpec == ListenInit /\ [][ListenNext]_vars

\* The recogniser's events come and pending promises settle; the user does
\* nothing by obligation
ListenFairSpec ==
    /\ ListenSpec
    /\ WF_vars(Listen)
    /\ WF_vars(\E outcome \in {"transcript", "empty", "error"} : WebSpeechSettled(outcome))
    /\ WF_vars(\E ok \in BOOLEAN : RecordingSetupSettled(ok))
    /\ WF_vars(\E text \in {"", "text"} : ProcessingSettled(text))

\* ------------------------------------------------------------ getAudioStreamWithRetry on the cache

IdleHandle == [pc |-> "idle", i |-> 0, ret |-> 0, early |-> FALSE]

\* The condition under which getAudioStreamWithRetry returns the cached stream
\* without calling getAudioStream
RetryEarlyReturn == audioStream # 0 /\ isStreamActive

HandleInit ==
    /\ MicInit /\ SessInit
    /\ arg = 0
    /\ res = IdleHandle

HandleUnchanged == UNCHANGED <<arg, sessVars>>

\* getAudioStreamWithRetry up to its loop
GetAudioStreamWithRetry ==
    /\ res.pc = "idle"
    /\ res' = IF RetryEarlyReturn
              THEN [res EXCEPT !.pc = "done", !.ret = audioStream, !.early = TRUE]
              ELSE [res EXCEPT !.pc = "loop", !.i = 0]
    /\ UNCHANGED micVars /\ HandleUnchanged

\* What the loop does with the value getAudioStream gave it
AfterAttempt(r, stream) ==
    IF stream # 0 THEN [r EXCEPT !.pc = "done", !.ret = stream]
    ELSE [r EXCEPT !.pc = "next", !.i = @ + 1]

\* One iteration calls getAudioStream, which returns at once (cached stream, or
\* no permission) or waits for getUserMedia
HandleAttempt ==
    /\ res.pc = "loop" /\ res.i < MaxRetries
    /\ GetAudioStreamStart(1)
    /\ res' = IF call'[1].pc = "done" THEN AfterAttempt(res, call'[1].ret)
              ELSE [res EXCEPT !.pc = "await"]
    /\ HandleUnchanged

\* getUserMedia resolves and the loop returns the new stream
HandleResolve ==
    /\ res.pc = "await"
    /\ GetUserMediaResolve(1)
    /\ res' = AfterAttempt(res, call'[1].ret)
    /\ HandleUnchanged

\* getUserMedia rejects: getAudioStream returns null and the loop goes on
HandleReject(err) ==
    /\ res.pc = "await"
    /\ GetUserMediaReject(1, err)
    /\ res' = AfterAttempt(res, call'[1].ret)
    /\ HandleUnchanged

\* The next iteration begins
HandleContinue ==
    /\ res.pc = "next"
    /\ TakeResult(1)
    /\ res' = [res EXCEPT !.pc = "loop"]
    /\ HandleUnchanged

\* The loop ran out: null
HandleExhausted ==
    /\ res.pc = "loop" /\ res.i >= MaxRetries
    /\ res' = [res EXCEPT !.pc = "done", !.ret = 0]
    /\ UNCHANGED micVars /\ HandleUnchanged

\* The caller takes what getAudioStreamWithRetry returned
HandleTaken ==
    /\ res.pc = "done"
    /\ res' = IdleHandle
    /\ call' = [call EXCEPT ![1] = IdleCall]
    /\ UNCHANGED <<permissionGranted, audioStream, isStreamActive, track, trackEnabled,
                   endedSeen, gumCalls>>
    /\ HandleUnchanged

HandleNext ==
    \/ GetAudioStreamWithRetry
    \/ HandleAttempt
    \/ HandleResolve
    \/ \E e \in ErrKinds : HandleReject(e)
    \/ HandleContinue
    \/ HandleExhausted
    \/ HandleTaken
    \/ \E o \in {"granted", "stored", "denied", "probe_ok", "probe_fail"} :
          Initialize(o) /\ UNCHANGED <<sessVars, utilVars>>
    \/ \E s \in StreamIds : ExternalStopTracks(s) /\ UNCHANGED <<sessVars, utilVars>>
    \/ \E s \in StreamIds : StreamEnded(s) /\ UNCHANGED <<sessVars, utilVars>>
    \/ CleanupAudio /\ UNCHANGED <<sessVars, utilVars>>

HandleSpec == HandleInit /\ [][HandleNext]_vars

\* ------------------------------------------------------------ initializeAudioRecording

NoRecording == [source |-> 0, stream |-> 0]

\* The manager's audioContext (0: null) and mediaSource (0: null, otherwise the
\* stream the node was built from), and a call of initializeAudioRecording
RecordingInit ==
    /\ MicInit /\ SessInit
    /\ arg = 0
    /\ res = [pc |-> "idle", audioContext |-> 0, mediaSource |-> 0, ret |-> NoRecording]

\* cleanupAudio() also drops the context and the source node
AfterCleanupAudio(r) == [r EXCEPT !.audioContext = 0, !.mediaSource = 0]

\* initializeAudioRecording once getAudioStream has returned: null without a
\* stream; createMediaStreamSource throws on a nulled context and the catch
\* returns null; the source node is made only when the field holds none
AfterGetAudioStream(r, stream) ==
    IF stream = 0 \/ r.audioContext = 0
    THEN [r EXCEPT !.pc = "done", !.ret = NoRecording]
    ELSE LET ms == IF r.mediaSource = 0 THEN stream ELSE r.mediaSource IN
         [r EXCEPT !.pc = "done", !.mediaSource = ms,
                   !.ret = [source |-> ms, stream |-> stream]]

\* initializeAudioRecording up to the return of getAudioStream or its await of
\* getUserMedia: the context is made when the field holds none
InitializeAudioRecording ==
    /\ res.pc = "idle"
    /\ GetAudioStreamStart(1)
    /\ LET r == [res EXCEPT !.audioContext = 1] IN
       res' = IF call'[1].pc = "done" THEN AfterGetAudioStream(r, call'[1].ret)
              ELSE [r EXCEPT !.pc = "await"]
    /\ UNCHANGED <<arg, sessVars>>

\* getUserMedia resolves
RecordingResolve ==
    /\ res.pc = "await"
    /\ GetUserMediaResolve(1)
    /\ res' = AfterGetAudioStream(res, call'[1].ret)
    /\ UNCHANGED <<arg, sessVars>>

\* getUserMedia rejects; a NotAllowedError runs clearPermission and so cleanupAudio
RecordingReject(err) ==
    /\ res.pc = "await"
    /\ GetUserMediaReject(1, err)
    /\ res' = AfterGetAudioStream(IF err = "NotAllowedError" THEN AfterCleanupAudio(res)
                                  ELSE res, call'[1].ret)
    /\ UNCHANGED <<arg, sessVars>>

\* The caller takes the result
RecordingTaken ==
    /\ res.pc = "done"
    /\ TakeResult(1)
    /\ res' = [res EXCEPT !.pc = "idle", !.ret = NoRecording]
    /\ UNCHANGED <<arg, sessVars>>

RecordingCleanupAudio ==
    /\ CleanupAudio
    /\ res' = AfterCleanupAudio(res)
    /\ UNCHANGED <<arg, sessVars>>

RecordingClearPermission ==
    /\ ClearPermission
    /\ res' = AfterCleanupAudio(res)
    /\ UNCHANGED <<arg, sessVars>>

RecordingNext ==
    \/ InitializeAudioRecording
    \/ RecordingResolve
    \/ \E e \in ErrKinds : RecordingReject(e)
    \/ RecordingTaken
    \/ RecordingCleanupAudio
    \/ RecordingClearPermission
    \/ \E o \in {"granted", "stored", "denied", "probe_ok", "probe_fail"} :
          Initialize(o) /\ UNCHANGED <<sessVars, utilVars>>
    \/ \E s \in StreamIds : ExternalStopTracks(s) /\ UNCHANGED <<sessVars, utilVars>>
    \/ \E s \in StreamIds, b \in BOOLEAN : SetTrackEnabled(s, b) /\ UNCHANGED <<sessVars, utilVars>>
    \/ \E s \in StreamIds : StreamEnded(s) /\ UNCHANGED <<sessVars, utilVars>>

RecordingSpec == RecordingInit /\ [][RecordingNext]_vars

\* ------------------------------------------------------------ the batch recorder's auto-stop timer

AutoStopSeconds == 10   \* setTimeout(..., 10000)
MaxClock == 12          \* seconds the run lasts
MaxRecordings == 2      \* recordings started in one run

NoAutoStop == [rec |-> 0, at |-> 0, by |-> 0]

\* res.began[r]: when recording r began; res.timers: the pending timeouts, each
\* with the recording that scheduled it; res.auto: the last stop a timeout made
AutoStopInit ==
    /\ MicInit /\ SessInit
    /\ arg = 0
    /\ res = [clock |-> 0, isRecording |-> FALSE, rec |-> 0,
              began |-> [r \in 1..MaxRecordings |-> 0], timers |-> {},
              auto |-> NoAutoStop]

\* A second passes; a timeout that is due runs first
ClockTick ==
    /\ res.clock < MaxClock
    /\ \A t \in res.timers : t.due > res.clock
    /\ res' = [res EXCEPT !.clock = @ + 1]
    /\ UNCHANGED <<arg, micVars, sessVars>>

\* listenWithGemini reaches "NOW RECORDING": isRecording is set and the
\* timeout is scheduled
StartRecording ==
    /\ ~res.isRecording
    /\ res.rec < MaxRecordings
    /\ LET r == res.rec + 1 IN
       res' = [res EXCEPT !.rec = r, !.isRecording = TRUE, !.began[r] = res.clock,
                          !.timers = @ \cup {[by |-> r, due |-> res.clock + AutoStopSeconds]}]
    /\ UNCHANGED <<arg, micVars, sessVars>>

\* stopListening(), batch branch, called by the user
ManualStop ==
    /\ res.isRecording
    /\ res' = [res EXCEPT !.isRecording = FALSE]
    /\ UNCHANGED <<arg, micVars, sessVars>>

\* The timeout's callback: `if (this.isRecording) this.stopListening()`
AutoStopFires(t) ==
    /\ t \in res.timers
    /\ t.due <= res.clock
    /\ res' = IF res.isRecording
              THEN [res EXCEPT !.timers = @ \ {t}, !.isRecording = FALSE,
                               !.auto = [rec |-> res.rec, at |-> res.clock, by |-> t.by]]
              ELSE [res EXCEPT !.timers = @ \ {t}]
    /\ UNCHANGED <<arg, micVars, sessVars>>

AutoStopNext ==
    \/ ClockTick
    \/ StartRecording
    \/ ManualStop
    \/ \E t \in res.timers : AutoStopFires(t)

AutoStopSpec == AutoStopInit /\ [][AutoStopNext]_vars

\* ------------------------------------------------------------ LiveTranscriptionService

MaxStarts == 3        \* start() calls in one run
MaxTranscript == 3    \* fragments held by currentTranscript

TranscriptionFragments == {<<"a">>, <<"b">>}

\* res.currentTranscript is the field; res.sinceStart the input-transcription
\* fragments received since the last start(); res.passed the text last passed to
\* onTranscriptUpdate or returned by stop() since then
TranscriptionInit ==
    /\ MicInit /\ SessInit
    /\ arg = 0
    /\ res = [pc |-> "idle", starts |-> 0, currentTranscript |-> <<>>,
              sinceStart |-> <<>>, passed |-> [any |-> FALSE, text |-> <<>>]]

\* start() up to its awaits (no assignment to currentTranscript)
TranscriptionStart ==
    /\ res.pc \in {"idle", "closed"}
    /\ res.starts < MaxStarts
    /\ res' = [res EXCEPT !.pc = "starting", !.starts = @ + 1, !.sinceStart = <<>>,
                          !.passed = [any |-> FALSE, text |-> <<>>]]
    /\ UNCHANGED <<arg, micVars, sessVars>>

\* start() ends: the session is established, or the catch block runs cleanup()
TranscriptionStartSettled(ok) ==
    /\ res.pc = "starting"
    /\ res' = [res EXCEPT !.pc = IF ok THEN "active" ELSE "idle"]
    /\ UNCHANGED <<arg, micVars, sessVars>>

\* handleServerMessage with inputTranscription.text
TranscriptionMessage(f) ==
    /\ res.pc \in {"active", "stopping"}
    /\ Len(res.currentTranscript) < MaxTranscript
    /\ LET t == res.currentTranscript \o f IN
       res' = [res EXCEPT !.currentTranscript = t, !.sinceStart = @ \o f,
                          !.passed = [any |-> TRUE, text |-> t]]
    /\ UNCHANGED <<arg, micVars, sessVars>>

\* onclose: stopAudioStreaming, isStreaming = false, callbacks.onClose()
TranscriptionClosed ==
    /\ res.pc = "active"
    /\ res' = [res EXCEPT !.pc = "closed"]
    /\ UNCHANGED <<arg, micVars, sessVars>>

\* stop() up to `await this.session.close()`
TranscriptionStop ==
    /\ res.pc \in {"active", "closed"}
    /\ res' = [res EXCEPT !.pc = "stopping"]
    /\ UNCHANGED <<arg, micVars, sessVars>>

\* stop() after its awaits: the transcript is returned and reset
TranscriptionStopped ==
    /\ res.pc = "stopping"
    /\ res' = [res EXCEPT !.pc = "idle", !.currentTranscript = <<>>,
                          !.passed = [any |-> TRUE, text |-> res.currentTranscript]]
    /\ UNCHANGED <<arg, micVars, sessVars>>

TranscriptionNext ==
    \/ TranscriptionStart
    \/ \E ok \in BOOLEAN : TranscriptionStartSettled(ok)
    \/ \E f \in TranscriptionFragments : TranscriptionMessage(f)
    \/ TranscriptionClosed
    \/ TranscriptionStop
    \/ TranscriptionStopped

TranscriptionSpec == TranscriptionInit /\ [][TranscriptionNext]_vars

MicNext ==
    \/ \E o \in {"granted", "stored", "denied", "probe_ok", "probe_fail"} :
          Initialize(o) /\ UNCHANGED <<sessVars, utilVars>>
    \/ \E k \in CallIds : GetAudioStreamStart(k) /\ UNCHANGED <<sessVars, utilVars>>
    \/ \E k \in CallIds : GetUserMediaResolve(k) /\ UNCHANGED <<sessVars, utilVars>>
    \/ \E k \in CallIds, e \in ErrKinds : GetUserMediaReject(k, e) /\ UNCHANGED <<sessVars, utilVars>>
    \/ \E k \in CallIds : TakeResult(k) /\ UNCHANGED <<sessVars, utilVars>>
    \/ \E s \in StreamIds : ExternalStopTracks(s) /\ UNCHANGED <<sessVars, utilVars>>
    \/ \E s \in StreamIds, b \in BOOLEAN : SetTrackEnabled(s, b) /\ UNCHANGED <<sessVars, utilVars>>
    \/ \E s \in StreamIds : StreamEnded(s) /\ UNCHANGED <<sessVars, utilVars>>
    \/ CleanupAudio /\ UNCHANGED <<sessVars, utilVars>>
    \/ ClearPermission /\ UNCHANGED <<sessVars, utilVars>>

MicSpec == Init /\ [][MicNext]_vars

\* ------------------------------------------------------------ claims on the cache

\* The cached stream is live as the cache sees it: marked active, stream active,
\* its track enabled and in readyState 'live'.
CacheLive ==
    /\ audioStream # 0
    /\ isStreamActive
    /\ track[audioStream] = "live"
    /\ trackEnabled[audioStream]

\* C1: a getAudioStream call that begins while permission is granted and the cached
\* stream is live issues no getUserMedia request and returns the cached stream
\* itself, which stays the cached one; so of N calls made while the stream stays
\* live only the one that created it reaches the OS.
C1_CachedStreamReused ==
    [][\A k \in CallIds :
          (permissionGranted /\ CacheLive /\ call[k].pc = "idle" /\ call'[k].pc # "idle")
          => /\ gumCalls' = gumCalls
             /\ call'[k].pc = "done"
             /\ call'[k].ret = audioStream
             /\ audioStream' = audioStream]_vars

\* C1 witness: two calls have returned the same stream and one request was issued.
C1_Witness ==
    /\ call[1].pc = "done" /\ call[2].pc = "done"
    /\ call[1].ret # 0 /\ call[1].ret = call[2].ret
    /\ gumCalls = 1

\* C2: a getAudioStream call that begins while the cached stream's track has ended
\* never returns that stream: with permission granted it issues a fresh getUserMedia
\* request, and what it returns is null (the request failed) or the stream of that
\* request, live and cached at the moment of the return.
C2_DeadStreamNotReturned ==
    [][\A k \in CallIds :
          /\ (DeadCachedStream # 0 /\ permissionGranted
                /\ call[k].pc = "idle" /\ call'[k].pc # "idle")
             => /\ call'[k].pc = "gum"
                /\ gumCalls' = gumCalls + 1
                /\ track[call'[k].req] = "none"
          /\ (call[k].pc # "done" /\ call'[k].pc = "done" /\ call'[k].ret # 0)
             => /\ call'[k].ret # call'[k].dead
                /\ track'[call'[k].ret] = "live"
                /\ audioStream' = call'[k].ret
          /\ (call[k].pc = "gum" /\ call'[k].pc = "done" /\ call'[k].ret # 0)
             => call'[k].ret = call[k].req]_vars

\* C2 witness: a call that began on a dead cached stream has returned a fresh one.
C2_Witness ==
    \E k \in CallIds :
        /\ call[k].pc = "done"
        /\ call[k].dead # 0
        /\ call[k].ret # 0
        /\ track[call[k].dead] = "ended"
        /\ track[call[k].ret] = "live"

\* ------------------------------------------------------------ session claims

\* A connect() is outstanding: it has begun and has neither returned nor thrown
Outstanding(k) == conn[k].pc \in {"resume", "stream", "session"}

\* The service holds or is opening a session
Busy == session # 0 \/ sessionPromise # 0 \/ \E j \in ConnIds : Outstanding(j)

\* C3: at most one audio session is active: a connect() invoked while another
\* is outstanding or streaming creates no contexts and returns at once, so that
\* never two channels, two context pairs or two pumps are live together.
C3_ConnectOnlyFromIdle ==
    [][\A k \in ConnIds :
          (conn[k].pc = "idle" /\ conn'[k].pc # "idle" /\ Busy)
          => (conn'[k].pc = "failed" /\ inputOpen' = inputOpen
              /\ outputOpen' = outputOpen)]_vars

\* C4: once disconnect() has been invoked for a session, no frame is sent to it.
C4_NoFrameAfterDisconnect ==
    \A i \in 1..Len(out) : out[i].kind = "frame" => out[i].chan \notin stopped

\* C5: once disconnect() has been invoked for a session, none of its callbacks
\* (transcript, close, error) is invoked.
C5_NoEventAfterDisconnect ==
    \A i \in 1..Len(out) :
        out[i].kind \in {"transcript", "close", "error"} => out[i].chan \notin stopped

\* C6: when the handler of a message carrying an interruption has finished, no
\* playback unit is held and the model-text buffer is empty.
C6_InterruptedClears ==
    (op.name = "handleServerMessage" /\ op.phase = "done" /\ op.msg.interrupted)
    => (sources = {} /\ currentOutputText = <<>>)

\* C7 (as stated): a chunk that follows another with no interruption in between
\* starts exactly where the one before it ends.
C7_ExactSuccession ==
    lastPlay.prev >= 0 => lastPlay.start = lastPlay.prev

\* C7 (amended): a chunk that follows another with no interruption in between
\* starts no earlier than the end of the one before it, and exactly there unless
\* a chunk arrived, since the one before it was started, when the output clock
\* had passed the cursor.
C7_Succession ==
    lastPlay.prev >= 0
    => /\ lastPlay.start >= lastPlay.prev
       /\ ~lastPlay.late => lastPlay.start = lastPlay.prev

\* Two chunks were started in a row and the second starts where the first ends
C7_Witness ==
    /\ chunks = 2
    /\ lastPlay.prev > 0
    /\ ~lastPlay.late
    /\ lastPlay.start = lastPlay.prev

\* C8: a chunk starts no earlier than the end of the chunk before it, and no
\* earlier than the output clock's time at the moment it is started.
C8_NoOverlapNoPast ==
    lastPlay.start >= 0
    => /\ lastPlay.start >= lastPlay.at
       /\ lastPlay.prev >= 0 => lastPlay.start >= lastPlay.prev

\* C9 (as stated): no step of the message handler decreases nextStartTime.
C9_CursorMonotonic ==
    [][op'.name = "handleServerMessage" => nextStartTime' >= nextStartTime]_vars

\* C9 (amended): no step of the handler of a message without an interruption
\* decreases nextStartTime.
C9_CursorMonotonicUnlessInterrupted ==
    [][(op'.name = "handleServerMessage" /\ ~op'.msg.interrupted)
       => nextStartTime' >= nextStartTime]_vars

\* The handler of an audio message without interruption has advanced the cursor
C9_Witness ==
    /\ op.name = "handleServerMessage" /\ op.phase = "done"
    /\ ~op.msg.interrupted /\ op.msg.audio # 0
    /\ nextStartTime > lastPlay.start
    /\ lastPlay.start > 0

\* The service is Idle: it holds nothing and nothing of it is under way
Idle ==
    /\ session = 0 /\ sessionPromise = 0
    /\ inputAudioContext = 0 /\ outputAudioContext = 0
    /\ inputSource = 0 /\ processor = 0 /\ analyserNode = 0
    /\ sources = {} /\ nextStartTime = 0
    /\ currentInputText = <<>> /\ currentOutputText = <<>>
    /\ discPending = 0
    /\ \A k \in ConnIds : ~Outstanding(k)

\* C10: disconnect() on an Idle service returns without suspending or throwing,
\* invokes no callback and changes no field, so the service is Idle again for
\* the next disconnect().
C10_DisconnectIdleNoOp ==
    [][(Idle /\ op'.name = "disconnect")
       => (op'.phase = "returned" /\ out' = <<>> /\ UNCHANGED fieldVars /\ Idle')]_vars

\* disconnect() has returned on a service that no connect() was ever invoked on
C10_Witness ==
    /\ op.name = "disconnect" /\ op.phase = "returned"
    /\ Idle
    /\ stopped = {}
    /\ \A k \in ConnIds : conn[k].pc = "idle"

\* disconnect() has run to its end in the last step
DisconnectReturned == op.name = "disconnect" /\ op.phase \in {"returned", "caught"}

C12_IdleAfterChannelEnd ==
    \A i \in 1..Len(out) :
        out[i].kind \in {"close", "error"}
        => (~IsConnected /\ session # out[i].chan /\ sessionPromise # out[i].chan)

\* C13: a fault of a channel invokes the error callback and forces disconnect():
\* after the step that reports the fault the channel is no longer open and the
\* service has dropped the session and its promise.
C13_FaultForcesDisconnect ==
    [][\A k \in ConnIds :
          (chan[k] = "open" /\ \E i \in 1..Len(out') : out'[i] = Ev("error", k, <<>>, FALSE, FALSE))
          => (chan'[k] # "open" /\ session' # k /\ sessionPromise' # k)]_vars

\* C14: no step of a run of connect, disconnect, remote close and channel error
\* stops or discards the capture manager's cached stream: a live stream that is
\* cached stays cached and live, so that the next session is given it again.
C14_HandleKept ==
    [][(audioStream # 0 /\ track[audioStream] = "live")
       => (audioStream' = audioStream /\ track'[audioStream] = "live")]_vars

\* C15: at most one getUserMedia request of the manager is outstanding at a
\* time, and a cached stream is not replaced in the cache while it is live.
C15_OneCaptureRequest ==
    /\ [](Cardinality({k \in CallIds : call[k].pc = "gum"}) <= 1)
    /\ [][(audioStream # 0 /\ track[audioStream] = "live" /\ audioStream' # 0)
          => audioStream' = audioStream]_vars

\* C16: a sample in [-1, 1] that is encoded by float32ToInt16 and decoded by
\* decodeAudioData comes back within one quantization step, 1/32768.
C16_RoundTripWithinOneStep ==
    (res.stage = "decoded" /\ arg \in -SampleScale..SampleScale)
    => Abs(arg * res.sample.den - res.sample.num * SampleScale) * DecodeScale
         <= SampleScale * res.sample.den

\* C17: in either variant, a recording shorter than 1.5 s makes
\* processRecordedAudio return "" without calling the remote transcription.
C17_ShortAudioSuppressed ==
    TotalLength(arg.recordedSamples) < MinDurationTenthsGemini * RateTenths
    => (res.remoteCalls = 0 /\ res.ret = "")

\* C18: two capture requests that fail for different reasons among device not
\* found, permission denied and device busy return different outcomes.
C18_FailuresToldApart ==
    (res.ran = {1, 2} /\ arg.err[1] # arg.err[2]) => res.ret[1] # res.ret[2]

\* getAudioStream has returned after a capture failure
C19_Failed == res.pc = "done" /\ res.caught

C20_RetryWithBackoff ==
    /\ res.calls <= arg.maxRetries
    /\ (res.pc = "done" /\ res.ret # "stream")
       => /\ res.calls = arg.maxRetries
          /\ Len(res.delays) = res.calls - 1
          /\ \A n \in 1..(Len(res.delays) - 1) : res.delays[n] < res.delays[n + 1]

\* Permission is already granted: the live query says so, or a stored flag can
\* be read and the query does not say "denied"
C21_AlreadyGranted ==
    \/ arg.permissionStatus = "granted"
    \/ /\ arg.permissionStatus # "denied"
       /\ \/ arg.stored.cloud /\ arg.cloudGet = "ok"
          \/ arg.stored.local /\ arg.localGet = "ok"

C22_Finals(evs) ==
    LET IsFinal(e) == e.kind = "transcript" /\ e.final
        fin == SelectSeq(evs, IsFinal)
    IN  [i \in 1..Len(fin) |-> <<fin[i].user, fin[i].text>>]

\* C22: the handler of a turn-complete message emits a final event for each
\* non-empty buffer, the user's first, and leaves both buffers empty.
C22_TurnCompleteFinalizes ==
    [][(op'.name = "handleServerMessage" /\ op'.phase = "done" /\ op'.msg.turnComplete)
       => LET in1  == currentInputText \o op'.msg.inText
              out1 == (IF op'.msg.interrupted THEN <<>> ELSE currentOutputText)
                      \o op'.msg.outText
          IN  /\ C22_Finals(out') =
                   (IF in1 # <<>> THEN << <<TRUE, in1>> >> ELSE <<>>)
                   \o (IF out1 # <<>> THEN << <<FALSE, out1>> >> ELSE <<>>)
              /\ currentInputText' = <<>>
              /\ currentOutputText' = <<>>]_vars

\* C23: when connect() learns that no capture stream was obtained, its promise
\* does not reject and the failure is reported, once, through the error callback.
C23_ConnectFailureReported ==
    [][\A k \in ConnIds :
         (conn[k].pc = "stream" /\ call[k].pc = "done" /\ call[k].ret = 0
          /\ conn'[k].pc # "stream")
         => /\ conn'[k].pc # "failed"
            /\ Cardinality({i \in 1..Len(out') :
                              out'[i].kind = "error" /\ out'[i].chan = k}) = 1]_vars

\* A value of the shape { aiResponse: string, meta: { shouldSpeak: bool } }
C24_WellFormed(v) ==
    /\ v.kind = "object" /\ v.aiResponse = "string" /\ v.meta = "object"
    /\ v.shouldSpeak \in {"true", "false"}

\* A backend answer that is not a well-formed reply in time
C24_Failure ==
    /\ ~arg.mock
    /\ \/ arg.net = "network error" \/ arg.latency >= TimeoutMs \/ arg.status # 200
       \/ ~C24_WellFormed(arg.body)

\* C24: sendQueryToN8n never rejects; every value it resolves to is well formed;
\* on a non-2xx response, a malformed body, a network failure or a timeout it
\* resolves to the apology, which is to be spoken.
C24_AlwaysWellFormedReply ==
    /\ res.settled # "rejected"
    /\ res.pc = "done"
       => /\ C24_WellFormed(res.ret)
          /\ C24_Failure => (res.ret = Apology /\ res.ret.shouldSpeak = "true")

C26_MalformedResumes ==
    /\ handlers # <<>>
    /\ Head(handlers).msg.audio = Undecodable
    /\ handlers' = Tail(handlers)

\* C26: the handler of a message whose payload cannot be decoded ends without an
\* event and leaves the session, the channel, the capture pump, the playback
\* units, the cursor and the text buffers as they were.
C26_MalformedDropped ==
    [][C26_MalformedResumes
       => /\ op'.phase = "threw" /\ out' = <<>>
          /\ UNCHANGED <<session, sessionPromise, chan, promise, pump, processor,
                         inputSource, inputAudioContext, outputAudioContext>>
          /\ UNCHANGED <<sources, nextStartTime, chunks, currentInputText,
                         currentOutputText>>]_vars

\* C26 witness: the handler of an undecodable message has ended on a session
\* that is connected and streaming, with a text buffer in use.
C26_Witness ==
    /\ op.name = "handleServerMessage" /\ op.phase = "threw"
    /\ op.msg.audio = Undecodable
    /\ outputAudioContext # 0
    /\ IsConnected /\ chan[1] = "open" /\ pump[1].attached
    /\ currentOutputText # <<>>

\* C27: an acquisition whose request failed with OverconstrainedError has made
\* exactly one more request, with the default constraints, before it returned.
C27_OneRelaxedRetry ==
    (res.pc = "done" /\ arg.first = "OverconstrainedError")
    => (res.requests = 2 /\ res.relaxed = 1)

\* C28: every partial transcript event carries all the fragments received, in
\* the order of arrival, since the last turn complete (for the model: or
\* interruption).
C28_PartialsCarryUtterance ==
    \A i \in 1..Len(out) :
        (out[i].kind = "transcript" /\ ~out[i].final)
        => out[i].text = (IF out[i].user THEN res.saidUser ELSE res.saidModel)

\* C29: once stopListening() has been called while listen() was pending, the
\* promise of listen() resolves.
C29_StopResolvesListen == (res.stops = 1) ~> (res.pc = "done")

\* C30: a stream that getAudioStreamWithRetry returns is active, with a live
\* track, at the moment it is returned.
C30_NeverDeadHandle ==
    [][(res.pc # "done" /\ res'.pc = "done" /\ res'.ret # 0)
        => track'[res'.ret] = "live"]_vars

\* C30 restricted to the streams the retry loop itself obtained: these are live
\* when they are returned.
C30_LoopHandleLive ==
    [][(res.pc # "done" /\ res'.pc = "done" /\ res'.ret # 0 /\ ~res'.early)
        => track'[res'.ret] = "live"]_vars

\* The onclose or onerror callback of channel k runs in this step, after
\* disconnect() was invoked on session k and a later connect() has made the
\* contexts the service now holds
C31_LateCallback(k) ==
    /\ k \in stopped
    /\ chan'[k] # chan[k]
    /\ out' \in {<<Ev("close", k, <<>>, FALSE, FALSE)>>, <<Ev("error", k, <<>>, FALSE, FALSE)>>}
    /\ \E j \in ConnIds : j > k /\ conn[j].pc \notin {"idle", "failed"}
                          /\ inputAudioContext = j /\ outputAudioContext = j

\* C31: a close or error callback of a session that was disconnected leaves the
\* pump, the audio contexts, the playback units and the text buffers of a later
\* session as they are.
C31_LateCloseSparesLaterSession ==
    [][\A k \in ConnIds : C31_LateCallback(k)
          => UNCHANGED <<inputAudioContext, outputAudioContext, inputOpen, outputOpen,
                         pump, processor, sources, currentInputText,
                         currentOutputText>>]_vars

\* C32: when connect() k fails because the capture gave no stream, it leaves
\* both audio contexts closed and released, no analyser, no pump, and no session
\* promise.
C32_FailedConnectReleases ==
    [][\A k \in ConnIds :
          (conn[k].pc = "stream" /\ conn'[k].pc = "failed")
          => /\ inputAudioContext' = 0 /\ outputAudioContext' = 0
             /\ k \notin inputOpen' /\ k \notin outputOpen'
             /\ analyserNode' = 0
             /\ processor' = 0
             /\ sessionPromise' = 0]_vars

\* C33: the source node initializeAudioRecording returns was built from the
\* stream it returns with it.
C33_SourceOfReturnedStream ==
    (res.pc = "done" /\ res.ret # NoRecording) => res.ret.source = res.ret.stream

\* C33 for a result that follows cleanupAudio with no replacement of the stream
\* since: the source node is rebuilt from the new stream.
C33_RebuiltAfterCleanup ==
    [][(res.pc # "done" /\ res'.pc = "done" /\ res'.ret # NoRecording
        /\ res.mediaSource = 0)
       => res'.ret.source = res'.ret.stream]_vars

\* C34: a recording that a timeout stopped was stopped by the timeout it
\* scheduled itself, AutoStopSeconds or more after it began.
C34_AutoStopOwnRecording ==
    res.auto # NoAutoStop
    => /\ res.auto.by = res.auto.rec
       /\ res.auto.at - res.began[res.auto.rec] >= AutoStopSeconds

\* C35: the text passed to onTranscriptUpdate or returned by stop() is made of
\* the fragments received since the most recent start(), and of nothing else.
C35_TranscriptOfThisSession ==
    res.passed.any => res.passed.text = res.sinceStart

\* C35 for sessions that were all ended by stop(): the transcript is that of
\* the session.
C35_AfterStopOnly ==
    [][(res.pc = "stopping" /\ res'.pc = "idle")
       => res'.currentTranscript = <<>>]_vars

====
